---------------------------- MODULE Spec2Model ----------------------------
(***************************************************************************)
(* A model of the Fedorable configuration engine                           *)
(* (src/fedorable-gui/src/fedorable/core.py), of the CLI code that         *)
(* configures it (src/fedorable-gui/src/fedorable/cli.py), of the GTK     *)
(* window that drives it (src/main.py) and of the legacy task window       *)
(* (src/fedorable-gui/src/window.py, tasks.py).                            *)
(*                                                                         *)
(* Python objects live on a heap and are named by references, so that      *)
(* sharing an object between the class-level registries and an instance    *)
(* is something the model can express (and a check can refute).            *)
(*                                                                         *)
(* A Python str is a sequence of pieces: every "_" and every "-" of the    *)
(* text is a piece of its own and the text between them is one piece, so   *)
(* two texts are equal exactly when their sequences are equal and          *)
(* str.replace("_", "-") is a piece-wise substitution.                     *)
(***************************************************************************)
EXTENDS Integers, Sequences, FiniteSets, TLC

\* How many FedorableCore instances a behaviour constructs.
MaxCores == 2

\* How many operations (constructions, writes, presets, widget events,
\* build_command and run calls) a behaviour makes.
MaxOps == 4

-----------------------------------------------------------------------------
(* Python values *)

\* Python's None where a str is expected: no text has this shape, since a
\* text's neighbouring pieces are never both plain.
None == <<"None", "None">>

\* Truth value of a str-or-None operand of `or`.
Truthy(s) == s # None /\ s # <<>>

\* `a or b`
Or(a, b) == IF Truthy(a) THEN a ELSE b

\* s.replace(old, new) for one-character old and new
Replace(s, old, new) == [i \in 1..Len(s) |-> IF s[i] = old THEN new ELSE s[i]]

\* the keys of an insertion-ordered dict, in order
Keys(d) == [i \in 1..Len(d) |-> d[i].key]

\* `key in d`
HasKey(d, key) == \E i \in 1..Len(d) : d[i].key = key

\* the reference d[key] of a dict that has the key
Lookup(d, key) == d[CHOOSE i \in 1..Len(d) : d[i].key = key].ref

\* list.count(x)
Count(s, x) == Cardinality({i \in 1..Len(s) : s[i] = x})

-----------------------------------------------------------------------------
(* Program constants *)

DEFAULT_SCRIPT_PATH == <<"<package root>/fedorable.sh">>

PKEXEC == <<"pkexec">>

\* names of the entries of FedorableCore.TASKS, in the order of the literal
TASK_NAMES ==
    << <<"update">>,
       <<"autoremove">>,
       <<"clean", "_", "dnf">>,
       <<"clean", "_", "kernels">>,
       <<"clean", "_", "journal">>,
       <<"clean", "_", "temp">>,
       <<"update", "_", "grub">>,
       <<"clean", "_", "flatpak">>,
       <<"optimize", "_", "rpmdb">>,
       <<"reset", "_", "failed", "_", "units">>,
       <<"trim">> >>

\* names of the entries of FedorableCore.OPTIONS, in the order of the literal
OPTION_NAMES ==
    << <<"yes">>,
       <<"dry", "_", "run">>,
       <<"check", "_", "only">>,
       <<"quiet">> >>

\* FedorableTask.__init__(name, description, enabled, flag)
FedorableTask(name, enabled, flag) ==
    [cls |-> "FedorableTask", name |-> name, enabled |-> enabled,
     flag |-> Or(flag, <<"-", "-", "no", "-">> \o Replace(name, "_", "-"))]

\* FedorableOption.__init__(name, description, enabled, flag)
FedorableOption(name, enabled, flag) ==
    [cls |-> "FedorableOption", name |-> name, enabled |-> enabled,
     flag |-> Or(flag, <<"-", "-">> \o Replace(name, "_", "-"))]


-----------------------------------------------------------------------------
(* State *)

VARIABLES
    heap,       \* the FedorableTask / FedorableOption objects, by reference
    TASKS,      \* FedorableCore.TASKS: insertion-ordered dict name -> reference
    OPTIONS,    \* FedorableCore.OPTIONS: insertion-ordered dict name -> reference
    cores,      \* the FedorableCore instances constructed so far
    window,     \* FedorableGtkApp.window: <<>> or <<the FedorableMainWindow>>
    command,    \* the list the last operation got from build_command, else <<>>
    last,       \* the last operation: its name, arguments and outcome
    hist,       \* per instance: whether no enabled state was written since its
                \* construction, and what build_command returned since the last write
    nops        \* operations made so far

vars == <<heap, TASKS, OPTIONS, cores, window, command, last, hist, nops>>

\* The state of a run: the file system, the main thread in FedorableCore.run,
\* the child process and its two pipes, the reader threads, and what the
\* callers see.
VARIABLES
    script_ok,  \* os.path.exists(script_path) and os.access(script_path, os.X_OK)
    chmods,     \* how often the script's file has changed under the program
    entry,      \* who made the run request: "" (nobody yet), "run", "cli", "gui"
    pc,         \* where the main thread of a blocking run is
    call,       \* the arguments of FedorableCore.run: use_pkexec, callback
    process,    \* the child: state, the stream it is blocked writing to, exit code
    wrote,      \* per stream: how many lines the child has written to it
    got,        \* per stream: how many lines have been read from its pipe
    thread,     \* the two threads of _run_with_callback, in creation order
    sink,       \* the calls the callback has received, in order
    printed,    \* what the CLI's own code has printed, in order
    result,     \* <<>>, or <<how the blocking request ended>>
    spawned,    \* the outcome of every spawn attempt, in order
    gtk         \* the window's process marker, controls, dialogs, output view

rvars ==
    <<script_ok, chmods, entry, pc, call, process, wrote, got, thread, sink, printed,
      result, spawned, gtk>>

\* The legacy task window (window.py): whether it exists, its run button,
\* the visible child of its stack, the task indices run_tasks has still to
\* execute, its progress, and how run_tasks and the constructor ended.
VARIABLES
    legacy

lvars == <<legacy>>

allvars == <<vars, rvars, lvars>>

\* how often the legacy window's run button is clicked
MaxRuns == 2

\* no FedorableWindow has been constructed
NoLegacy ==
    [exists |-> FALSE, run_button |-> FALSE, visible_child |-> "", queue |-> <<>>,
     i |-> 0, total_tasks |-> 0, status |-> "", in_run_tasks |-> FALSE, raised |-> "",
     dialogs |-> 0, runs |-> 0]

\* the child's two output streams
Streams == {"stdout", "stderr"}

\* the exit codes a child ends with
ExitCodes == {0, 1, 7}

\* how many lines a child writes, over both streams
MaxLines == 2

\* how many lines a pipe holds before a write to it blocks
PipeCap == 1

\* how often the script's file changes (appears, disappears, chmod)
MaxChmods == 1

\* how many run requests the window gets
MaxClicks == 2

\* the platform's text for a failed spawn
Diagnostics == {"[Errno 2] No such file or directory", "[Errno 13] Permission denied"}

\* no child
NoProcess == [state |-> "none", pending |-> "", returncode |-> 0, piped |-> FALSE]

\* the window as FedorableMainWindow.__init__ leaves it
NewWindowState ==
    [process |-> FALSE, communicating |-> FALSE, sensitive |-> TRUE,
     status |-> [text |-> "Ready.", code |-> 0],
     dialogs |-> <<>>, output |-> <<>>, finalized |-> <<>>, clicks |-> 0]

\* show_error_dialog(primary_text, secondary_text) on window state g
ShowErrorDialog(g, primary_text, secondary_text) ==
    [g EXCEPT !.dialogs = Append(@, [body |-> primary_text, extra |-> secondary_text])]

\* nothing has been asked to run
NoRun ==
    /\ script_ok = TRUE
    /\ chmods = 0
    /\ entry = ""
    /\ pc = "idle"
    /\ call = [use_pkexec |-> TRUE, callback |-> FALSE]
    /\ process = NoProcess
    /\ wrote = [fd \in Streams |-> 0]
    /\ got = [fd \in Streams |-> 0]
    /\ thread = <<"unstarted", "unstarted">>
    /\ sink = <<>>
    /\ printed = <<>>
    /\ result = <<>>
    /\ spawned = <<>>
    /\ gtk = NewWindowState

\* a name no registry has
UNKNOWN_NAME == <<"bogus">>

\* the task names callers pass to the set-by-name statements and the
\* checkboxes a user clicks: the first and the last entry of TASKS (the
\* presets write all of them)
TaskInputs == {<<"update">>, <<"trim">>}

\* the option names callers pass and the switches a user flips
OptionInputs == {<<"dry", "_", "run">>}

\* the names a caller may pass to a set-by-name statement of either dict
Names == TaskInputs \cup OptionInputs \cup {UNKNOWN_NAME}

\* the script_path arguments a caller may pass to FedorableCore(...)
ScriptPaths == {None, <<>>, <<"/opt/fedorable.sh">>, PKEXEC}

\* how a run can end: the pre-flight check fails, the spawn fails, or the
\* child ends and its exit code is returned
RunOutcomes == {"FileNotFoundError", "OSError", "returned"}

\* the values argparse leaves in args.task_<name>: None when neither
\* --<task> nor --no-<task> was given, else what the last of them stored
ArgValues == {"None", "store_true", "store_false"}

\* the parsed arguments of a command line without arguments
NoArgs ==
    [all |-> FALSE, none |-> FALSE, tasks |-> [key \in TaskInputs |-> "None"],
     options |-> [key \in OptionInputs |-> FALSE]]

NoCall ==
    [op |-> "", core |-> 0, key |-> <<>>, value |-> FALSE, use_pkexec |-> FALSE,
     again |-> FALSE, err |-> "", args |-> NoArgs, modified |-> FALSE]

\* the history of an instance just constructed
NoHist == [fresh |-> TRUE, built |-> [p \in BOOLEAN |-> <<>>]]

\* the history of an instance after a write to its enabled states
Touched == [fresh |-> FALSE, built |-> [p \in BOOLEAN |-> <<>>]]

-----------------------------------------------------------------------------
(* core.py *)

\* the class body of FedorableCore: the TASKS and OPTIONS literals
ClassBody ==
    /\ heap = [i \in 1..(Len(TASK_NAMES) + Len(OPTION_NAMES)) |->
                 IF i <= Len(TASK_NAMES)
                 THEN FedorableTask(TASK_NAMES[i], TRUE, None)
                 ELSE FedorableOption(OPTION_NAMES[i - Len(TASK_NAMES)], FALSE, None)]
    /\ TASKS = [i \in 1..Len(TASK_NAMES) |-> [key |-> TASK_NAMES[i], ref |-> i]]
    /\ OPTIONS = [i \in 1..Len(OPTION_NAMES) |->
                    [key |-> OPTION_NAMES[i], ref |-> Len(TASK_NAMES) + i]]

\* FedorableCore.__init__ with every entry aliased instead of copied
FedorableCoreInitShared(h, script_path) ==
    [heap |-> h,
     self |-> [script_path |-> Or(script_path, DEFAULT_SCRIPT_PATH),
               tasks |-> TASKS, options |-> OPTIONS]]

\* FedorableCore.__init__ copying the options as enabled
FedorableCoreInitOptionsOn(h, script_path) ==
    LET nt == Len(TASKS)
        no == Len(OPTIONS)
        tasks == [i \in 1..nt |->
                    FedorableTask(h[TASKS[i].ref].name, h[TASKS[i].ref].enabled, None)]
        options == [i \in 1..no |-> FedorableOption(h[OPTIONS[i].ref].name, TRUE, None)]
    IN  [heap |-> h \o tasks \o options,
         self |-> [script_path |-> Or(script_path, DEFAULT_SCRIPT_PATH),
                   tasks |-> [i \in 1..nt |-> [key |-> TASKS[i].key, ref |-> Len(h) + i]],
                   options |-> [i \in 1..no |->
                                  [key |-> OPTIONS[i].key, ref |-> Len(h) + nt + i]]]]

\* FedorableCore.__init__(script_path): the new heap and the new instance
FedorableCoreInit(h, script_path) ==
    LET nt == Len(TASKS)
        no == Len(OPTIONS)
        tasks == [i \in 1..nt |->
                    FedorableTask(h[TASKS[i].ref].name, h[TASKS[i].ref].enabled, None)]
        options == [i \in 1..no |->
                      FedorableOption(h[OPTIONS[i].ref].name, h[OPTIONS[i].ref].enabled, None)]
    IN  [heap |-> h \o tasks \o options,
         self |-> [script_path |-> Or(script_path, DEFAULT_SCRIPT_PATH),
                   tasks |-> [i \in 1..nt |-> [key |-> TASKS[i].key, ref |-> Len(h) + i]],
                   options |-> [i \in 1..no |->
                                  [key |-> OPTIONS[i].key, ref |-> Len(h) + nt + i]]]]

\* the flags of the entries of dict d whose enabled state is v, in dict order
RECURSIVE Flags(_, _, _)
Flags(h, d, v) ==
    IF d = <<>> THEN <<>>
    ELSE (IF h[Head(d).ref].enabled = v THEN <<h[Head(d).ref].flag>> ELSE <<>>)
             \o Flags(h, Tail(d), v)

\* build_command with the option flags before the task flags
build_command_options_first(h, self, use_pkexec) ==
    (IF use_pkexec THEN <<PKEXEC, self.script_path>> ELSE <<self.script_path>>)
        \o Flags(h, self.options, TRUE) \o Flags(h, self.tasks, FALSE)

\* build_command appending the flag of every task that is enabled
build_command_enabled_tasks(h, self, use_pkexec) ==
    (IF use_pkexec THEN <<PKEXEC, self.script_path>> ELSE <<self.script_path>>)
        \o Flags(h, self.tasks, TRUE) \o Flags(h, self.options, TRUE)

\* build_command appending the flag of every option, enabled or not
build_command_all_options(h, self, use_pkexec) ==
    (IF use_pkexec THEN <<PKEXEC, self.script_path>> ELSE <<self.script_path>>)
        \o Flags(h, self.tasks, FALSE)
        \o Flags(h, self.options, TRUE) \o Flags(h, self.options, FALSE)

\* build_command with the escalation token after the script path
build_command_wrapper_last(h, self, use_pkexec) ==
    (IF use_pkexec THEN <<self.script_path, PKEXEC>> ELSE <<self.script_path>>)
        \o Flags(h, self.tasks, FALSE) \o Flags(h, self.options, TRUE)

\* FedorableCore.build_command(self, use_pkexec), reading the objects in h
build_command(h, self, use_pkexec) ==
    (IF use_pkexec THEN <<PKEXEC, self.script_path>> ELSE <<self.script_path>>)
        \o Flags(h, self.tasks, FALSE) \o Flags(h, self.options, TRUE)


-----------------------------------------------------------------------------
(* The statements that write an enabled state *)

\* `d[key].enabled = value` with the KeyError swallowed
SetEnabledNoError(h, d, key, value) ==
    IF HasKey(d, key)
    THEN [heap |-> [h EXCEPT ![Lookup(d, key)].enabled = value], err |-> ""]
    ELSE [heap |-> h, err |-> ""]

\* `d[key].enabled = value` (cli.py): the subscript raises KeyError for a key
\* d does not have, before anything is written
SetEnabled(h, d, key, value) ==
    IF HasKey(d, key)
    THEN [heap |-> [h EXCEPT ![Lookup(d, key)].enabled = value], err |-> ""]
    ELSE [heap |-> h, err |-> "KeyError"]

\* `if key in d: d[key].enabled = value` (main.py): a key d does not have is
\* skipped
SetEnabledIfPresent(h, d, key, value) ==
    IF HasKey(d, key)
    THEN [h EXCEPT ![Lookup(d, key)].enabled = value]
    ELSE h

\* `for name in d: d[name].enabled = value`
SetAll(h, d, value) ==
    [r \in DOMAIN h |->
       IF \E i \in 1..Len(d) : d[i].ref = r THEN [h[r] EXCEPT !.enabled = value] ELSE h[r]]

\* the preset block writing the options as well
PresetWithOptions(h, self, all, none) ==
    IF all THEN SetAll(SetAll(h, self.tasks, TRUE), self.options, TRUE)
    ELSE IF none THEN SetAll(SetAll(h, self.tasks, FALSE), self.options, FALSE)
    ELSE h

\* the preset block of setup_fedorable_core: `if args.all: ... elif args.none: ...`
Preset(h, self, all, none) ==
    IF all THEN SetAll(h, self.tasks, TRUE)
    ELSE IF none THEN SetAll(h, self.tasks, FALSE)
    ELSE h

\* the two loops of FedorableMainWindow.build_command: every checkbox, then
\* every switch, is copied into the instance
RECURSIVE CopyWidgets(_, _, _)
CopyWidgets(h, d, widgets) ==
    IF widgets = <<>> THEN h
    ELSE CopyWidgets(SetEnabledIfPresent(h, d, Head(widgets).key, Head(widgets).active),
                     d, Tail(widgets))

-----------------------------------------------------------------------------
(* Operations *)

Init ==
    /\ ClassBody
    /\ cores = <<>>
    /\ window = <<>>
    /\ command = <<>>
    /\ last = NoCall
    /\ hist = <<>>
    /\ nops = 0
    /\ NoRun
    /\ legacy = NoLegacy

\* FedorableCore(script_path)
New(script_path) ==
    /\ nops < MaxOps
    /\ Len(cores) < MaxCores
    /\ LET r == FedorableCoreInit(heap, script_path)
       IN  /\ heap' = r.heap
           /\ cores' = Append(cores, r.self)
    /\ hist' = Append(hist, NoHist)
    /\ command' = <<>>
    /\ last' = [NoCall EXCEPT !.op = "__init__", !.core = Len(cores) + 1]
    /\ nops' = nops + 1
    /\ UNCHANGED <<TASKS, OPTIONS, window>>
    /\ UNCHANGED <<rvars, lvars>>

\* `fedorable.tasks.setdefault(name, FedorableTask(name, "")).enabled = value`:
\* a missing key is added instead of raising KeyError
SetTaskEnabledSetdefault(c, name, value) ==
    /\ nops < MaxOps
    /\ IF HasKey(cores[c].tasks, name)
       THEN /\ heap' = [heap EXCEPT ![Lookup(cores[c].tasks, name)].enabled = value]
            /\ cores' = cores
       ELSE /\ heap' = Append(heap, FedorableTask(name, value, None))
            /\ cores' = [cores EXCEPT ![c].tasks =
                            Append(@, [key |-> name, ref |-> Len(heap) + 1])]
    /\ last' = [NoCall EXCEPT !.op = "tasks[]=", !.core = c, !.key = name, !.value = value]
    /\ hist' = [hist EXCEPT ![c] = Touched]
    /\ command' = <<>>
    /\ nops' = nops + 1
    /\ UNCHANGED <<TASKS, OPTIONS, window>>
    /\ UNCHANGED <<rvars, lvars>>

\* `fedorable.tasks[name].enabled = value` on instance c
SetTaskEnabled(c, name, value) ==
    /\ nops < MaxOps
    /\ LET r == SetEnabled(heap, cores[c].tasks, name, value)
       IN  /\ heap' = r.heap
           /\ last' = [NoCall EXCEPT !.op = "tasks[]=", !.core = c, !.key = name,
                                     !.value = value, !.err = r.err]
           /\ hist' = IF r.err = "" THEN [hist EXCEPT ![c] = Touched] ELSE hist
    /\ command' = <<>>
    /\ nops' = nops + 1
    /\ UNCHANGED <<TASKS, OPTIONS, cores, window>>
    /\ UNCHANGED <<rvars, lvars>>

\* `fedorable.options[name].enabled = True` on instance c
SetOptionEnabled(c, name) ==
    /\ nops < MaxOps
    /\ LET r == SetEnabled(heap, cores[c].options, name, TRUE)
       IN  /\ heap' = r.heap
           /\ last' = [NoCall EXCEPT !.op = "options[]=", !.core = c, !.key = name,
                                     !.value = TRUE, !.err = r.err]
           /\ hist' = IF r.err = "" THEN [hist EXCEPT ![c] = Touched] ELSE hist
    /\ command' = <<>>
    /\ nops' = nops + 1
    /\ UNCHANGED <<TASKS, OPTIONS, cores, window>>
    /\ UNCHANGED <<rvars, lvars>>

\* the preset block of setup_fedorable_core on instance c
ApplyPreset(c, all, none) ==
    /\ nops < MaxOps
    /\ heap' = Preset(heap, cores[c], all, none)
    /\ last' = [NoCall EXCEPT !.op = IF all THEN "all" ELSE IF none THEN "none" ELSE "no preset",
                              !.core = c]
    /\ hist' = IF all \/ none THEN [hist EXCEPT ![c] = Touched] ELSE hist
    /\ command' = <<>>
    /\ nops' = nops + 1
    /\ UNCHANGED <<TASKS, OPTIONS, cores, window>>
    /\ UNCHANGED <<rvars, lvars>>

\* a build_command call that appends to the list the previous call returned
BuildCommandSameList(c, use_pkexec) ==
    /\ nops < MaxOps
    /\ command' = IF hist[c].built[use_pkexec] = <<>>
                  THEN build_command(heap, cores[c], use_pkexec)
                  ELSE hist[c].built[use_pkexec][1]
                           \o Flags(heap, cores[c].tasks, FALSE)
                           \o Flags(heap, cores[c].options, TRUE)
    /\ last' = [NoCall EXCEPT !.op = "build_command", !.core = c,
                              !.use_pkexec = use_pkexec,
                              !.again = hist[c].built[use_pkexec] # <<>>]
    /\ hist' = [hist EXCEPT ![c].built[use_pkexec] = <<command'>>]
    /\ nops' = nops + 1
    /\ UNCHANGED <<heap, TASKS, OPTIONS, cores, window>>
    /\ UNCHANGED <<rvars, lvars>>

\* a build_command call that returns the list its previous call returned,
\* which the caller holds and has appended to
BuildCommandKeptList(c, use_pkexec) ==
    /\ nops < MaxOps
    /\ command' = IF last.op = "list.append" /\ last.core = c /\ last.use_pkexec = use_pkexec
                  THEN command
                  ELSE build_command(heap, cores[c], use_pkexec)
    /\ last' = [NoCall EXCEPT !.op = "build_command", !.core = c,
                              !.use_pkexec = use_pkexec,
                              !.again = hist[c].built[use_pkexec] # <<>>,
                              !.modified = (/\ last.op = "list.append"
                                            /\ last.core = c
                                            /\ last.use_pkexec = use_pkexec)]
    /\ hist' = [hist EXCEPT ![c].built[use_pkexec] = <<command'>>]
    /\ nops' = nops + 1
    /\ UNCHANGED <<heap, TASKS, OPTIONS, cores, window>>
    /\ UNCHANGED <<rvars, lvars>>

\* cores[c].build_command(use_pkexec)
BuildCommand(c, use_pkexec) ==
    /\ nops < MaxOps
    /\ command' = build_command(heap, cores[c], use_pkexec)
    /\ last' = [NoCall EXCEPT !.op = "build_command", !.core = c,
                              !.use_pkexec = use_pkexec,
                              !.again = hist[c].built[use_pkexec] # <<>>,
                              !.modified = (/\ last.op = "list.append"
                                            /\ last.core = c
                                            /\ last.use_pkexec = use_pkexec)]
    /\ hist' = [hist EXCEPT ![c].built[use_pkexec] = <<command'>>]
    /\ nops' = nops + 1
    /\ UNCHANGED <<heap, TASKS, OPTIONS, cores, window>>
    /\ UNCHANGED <<rvars, lvars>>

\* cores[c].run(use_pkexec, callback), from call to return or raise; both
\* branches on `callback` run the same command and return the child's code
Run(c, use_pkexec, outcome) ==
    /\ nops < MaxOps
    /\ IF outcome = "FileNotFoundError"
       THEN command' = <<>> /\ hist' = hist
       ELSE /\ command' = build_command(heap, cores[c], use_pkexec)
            /\ hist' = [hist EXCEPT ![c].built[use_pkexec] = <<command'>>]
    /\ last' = [NoCall EXCEPT !.op = "run", !.core = c, !.use_pkexec = use_pkexec,
                              !.err = IF outcome = "returned" THEN "" ELSE outcome]
    /\ nops' = nops + 1
    /\ UNCHANGED <<heap, TASKS, OPTIONS, cores, window>>
    /\ UNCHANGED <<rvars, lvars>>

-----------------------------------------------------------------------------
(* main.py: the window *)

\* the widgets _setup_tasks_ui / _setup_options_ui make for dict d: one per
\* key, active as the entry is enabled
Widgets(h, d) == [i \in 1..Len(d) |-> [key |-> d[i].key, active |-> h[d[i].ref].enabled]]

\* FedorableGtkApp.do_activate when there is no window yet:
\* FedorableMainWindow.__init__, then _check_script_availability
Activate ==
    /\ nops < MaxOps
    /\ window = <<>>
    /\ Len(cores) < MaxCores
    /\ LET r == FedorableCoreInit(heap, DEFAULT_SCRIPT_PATH)
       IN  /\ heap' = r.heap
           /\ cores' = Append(cores, r.self)
           /\ window' = <<[fedorable |-> Len(cores) + 1,
                           task_checkboxes |-> Widgets(r.heap, r.self.tasks),
                           option_switches |-> Widgets(r.heap, r.self.options)]>>
    /\ hist' = Append(hist, NoHist)
    /\ command' = <<>>
    /\ last' = [NoCall EXCEPT !.op = "activate", !.core = Len(cores) + 1]
    /\ nops' = nops + 1
    /\ gtk' = IF script_ok
              THEN NewWindowState
              ELSE ShowErrorDialog(NewWindowState,
                                   "Error: Fedorable script not found or not executable!",
                                   "Please ensure the script exists and is executable.")
    /\ UNCHANGED <<TASKS, OPTIONS>>
    /\ UNCHANGED <<script_ok, chmods, entry, pc, call, process, wrote, got, thread, sink,
                   printed, result, spawned,
                   lvars>>

\* the widgets with the one for `key` clicked
Clicked(widgets, key) ==
    [i \in 1..Len(widgets) |->
       IF widgets[i].key = key THEN [widgets[i] EXCEPT !.active = ~@] ELSE widgets[i]]

\* the user clicks the checkbox of task `key`
ToggleCheckbox(key) ==
    /\ nops < MaxOps
    /\ window # <<>>
    /\ window' = [window EXCEPT ![1].task_checkboxes = Clicked(@, key)]
    /\ last' = [NoCall EXCEPT !.op = "click", !.key = key]
    /\ command' = <<>>
    /\ nops' = nops + 1
    /\ UNCHANGED <<heap, TASKS, OPTIONS, cores, hist>>
    /\ UNCHANGED <<rvars, lvars>>

\* the user flips the switch of option `key`
ToggleSwitch(key) ==
    /\ nops < MaxOps
    /\ window # <<>>
    /\ window' = [window EXCEPT ![1].option_switches = Clicked(@, key)]
    /\ last' = [NoCall EXCEPT !.op = "click", !.key = key]
    /\ command' = <<>>
    /\ nops' = nops + 1
    /\ UNCHANGED <<heap, TASKS, OPTIONS, cores, hist>>
    /\ UNCHANGED <<rvars, lvars>>

\* FedorableMainWindow.build_command()
WindowBuildCommand ==
    /\ nops < MaxOps
    /\ window # <<>>
    /\ LET w == window[1]
           self == cores[w.fedorable]
           h1 == CopyWidgets(heap, self.tasks, w.task_checkboxes)
           h2 == CopyWidgets(h1, self.options, w.option_switches)
       IN  /\ heap' = h2
           /\ command' = build_command(h2, self, TRUE)
           /\ hist' = [hist EXCEPT ![w.fedorable] =
                         [fresh |-> FALSE,
                          built |-> [p \in BOOLEAN |-> IF p THEN <<command'>> ELSE <<>>]]]
           /\ last' = [NoCall EXCEPT !.op = "window.build_command", !.core = w.fedorable,
                                     !.use_pkexec = TRUE]
    /\ nops' = nops + 1
    /\ UNCHANGED <<TASKS, OPTIONS, cores, window>>
    /\ UNCHANGED <<rvars, lvars>>

\* `if key in self.fedorable.tasks: self.fedorable.tasks[key].enabled = active`
WindowSetTaskEnabled(key, active) ==
    /\ nops < MaxOps
    /\ window # <<>>
    /\ LET c == window[1].fedorable
       IN  /\ heap' = SetEnabledIfPresent(heap, cores[c].tasks, key, active)
           /\ last' = [NoCall EXCEPT !.op = "if in tasks: tasks[]=", !.core = c,
                                     !.key = key, !.value = active]
           /\ hist' = IF HasKey(cores[c].tasks, key)
                      THEN [hist EXCEPT ![c] = Touched] ELSE hist
    /\ command' = <<>>
    /\ nops' = nops + 1
    /\ UNCHANGED <<TASKS, OPTIONS, cores, window>>
    /\ UNCHANGED <<rvars, lvars>>

\* `if key in self.fedorable.options: self.fedorable.options[key].enabled = active`
WindowSetOptionEnabled(key, active) ==
    /\ nops < MaxOps
    /\ window # <<>>
    /\ LET c == window[1].fedorable
       IN  /\ heap' = SetEnabledIfPresent(heap, cores[c].options, key, active)
           /\ last' = [NoCall EXCEPT !.op = "if in options: options[]=", !.core = c,
                                     !.key = key, !.value = active]
           /\ hist' = IF HasKey(cores[c].options, key)
                      THEN [hist EXCEPT ![c] = Touched] ELSE hist
    /\ command' = <<>>
    /\ nops' = nops + 1
    /\ UNCHANGED <<TASKS, OPTIONS, cores, window>>
    /\ UNCHANGED <<rvars, lvars>>

-----------------------------------------------------------------------------

Next ==
    \/ \E script_path \in ScriptPaths : New(script_path)
    \/ \E c \in 1..Len(cores), name \in Names, value \in BOOLEAN :
           SetTaskEnabled(c, name, value)
    \/ \E c \in 1..Len(cores), name \in Names : SetOptionEnabled(c, name)
    \/ \E c \in 1..Len(cores), all \in BOOLEAN, none \in BOOLEAN : ApplyPreset(c, all, none)
    \/ \E c \in 1..Len(cores), use_pkexec \in BOOLEAN : BuildCommand(c, use_pkexec)
    \/ \E c \in 1..Len(cores), use_pkexec \in BOOLEAN, outcome \in RunOutcomes :
           Run(c, use_pkexec, outcome)
    \/ Activate
    \/ \E key \in TaskInputs : ToggleCheckbox(key)
    \/ \E key \in OptionInputs : ToggleSwitch(key)
    \/ WindowBuildCommand
    \/ \E key \in Names, active \in BOOLEAN : WindowSetTaskEnabled(key, active)
    \/ \E key \in Names, active \in BOOLEAN : WindowSetOptionEnabled(key, active)

Spec == Init /\ [][Next]_vars

\* the flag arguments a registry entry is constructed with: none, or an
\* explicit flag
TaskFlagInputs == {None, <<"-", "-", "skip", "-", "update">>}
OptionFlagInputs == {None, <<"-", "y">>}

\* a class body whose first task entry is FedorableTask("update", ..., True,
\* task_flag) and whose first option entry is FedorableOption("yes", ...,
\* False, option_flag)
ClassBodyWith(task_flag, option_flag) ==
    /\ heap = [i \in 1..(Len(TASK_NAMES) + Len(OPTION_NAMES)) |->
                 IF i <= Len(TASK_NAMES)
                 THEN FedorableTask(TASK_NAMES[i], TRUE, IF i = 1 THEN task_flag ELSE None)
                 ELSE FedorableOption(OPTION_NAMES[i - Len(TASK_NAMES)], FALSE,
                                      IF i = Len(TASK_NAMES) + 1 THEN option_flag ELSE None)]
    /\ TASKS = [i \in 1..Len(TASK_NAMES) |-> [key |-> TASK_NAMES[i], ref |-> i]]
    /\ OPTIONS = [i \in 1..Len(OPTION_NAMES) |->
                    [key |-> OPTION_NAMES[i], ref |-> Len(TASK_NAMES) + i]]

\* the program with registries whose entries are constructed with or
\* without an explicit flag
RegistryInit ==
    /\ \E task_flag \in TaskFlagInputs, option_flag \in OptionFlagInputs :
           ClassBodyWith(task_flag, option_flag)
    /\ cores = <<>>
    /\ window = <<>>
    /\ command = <<>>
    /\ last = NoCall
    /\ hist = <<>>
    /\ nops = 0
    /\ NoRun
    /\ legacy = NoLegacy

RegistrySpec == RegistryInit /\ [][Next]_vars

-----------------------------------------------------------------------------
(* cli.py: setup_fedorable_core, and a caller of build_command *)

\* the parsed arguments: the presets, --<task> / --no-<task> for the tasks
\* of TaskInputs, --<option> for the options of OptionInputs
ParsedArgs ==
    [all : BOOLEAN, none : BOOLEAN, tasks : [TaskInputs -> ArgValues],
     options : [OptionInputs -> BOOLEAN]]

\* getattr(args, 'task_<key>'): None for a task no argument names
TaskArg(args, key) == IF key \in TaskInputs THEN args.tasks[key] ELSE "None"

\* getattr(args, 'option_<key>')
OptionArg(args, key) == IF key \in OptionInputs THEN args.options[key] ELSE FALSE

\* the loop over the tasks with the preset winning over the argument
RECURSIVE ApplyTaskArgsUnlessPreset(_, _, _)
ApplyTaskArgsUnlessPreset(h, d, args) ==
    IF d = <<>> THEN h
    ELSE ApplyTaskArgsUnlessPreset(
             IF TaskArg(args, Head(d).key) # "None" /\ ~args.all /\ ~args.none
             THEN [h EXCEPT ![Head(d).ref].enabled = (TaskArg(args, Head(d).key) = "store_true")]
             ELSE h,
             Tail(d), args)

\* `for name in fedorable.tasks:` setting enabled to the argument's value
\* when it is not None
RECURSIVE ApplyTaskArgs(_, _, _)
ApplyTaskArgs(h, d, args) ==
    IF d = <<>> THEN h
    ELSE ApplyTaskArgs(
             IF TaskArg(args, Head(d).key) # "None"
             THEN [h EXCEPT ![Head(d).ref].enabled = (TaskArg(args, Head(d).key) = "store_true")]
             ELSE h,
             Tail(d), args)

\* `for name in fedorable.options:` setting enabled to True when the
\* argument is true
RECURSIVE ApplyOptionArgs(_, _, _)
ApplyOptionArgs(h, d, args) ==
    IF d = <<>> THEN h
    ELSE ApplyOptionArgs(
             IF OptionArg(args, Head(d).key)
             THEN [h EXCEPT ![Head(d).ref].enabled = TRUE]
             ELSE h,
             Tail(d), args)

\* setup_fedorable_core(args) with the default script path
SetupFedorableCore(args) ==
    /\ nops < MaxOps
    /\ cores = <<>>
    /\ LET r == FedorableCoreInit(heap, DEFAULT_SCRIPT_PATH)
           h1 == Preset(r.heap, r.self, args.all, args.none)
           h2 == ApplyTaskArgs(h1, r.self.tasks, args)
           h3 == ApplyOptionArgs(h2, r.self.options, args)
       IN  /\ heap' = h3
           /\ cores' = <<r.self>>
           /\ hist' = <<IF h3 = r.heap THEN NoHist ELSE Touched>>
    /\ last' = [NoCall EXCEPT !.op = "setup_fedorable_core", !.core = 1, !.args = args]
    /\ command' = <<>>
    /\ nops' = nops + 1
    /\ UNCHANGED <<TASKS, OPTIONS, window>>
    /\ UNCHANGED <<rvars, lvars>>

\* a token a caller appends to a list it holds
CALLER_TOKEN == <<"-", "-", "extra">>

\* the caller of build_command appends to the list it was returned; no
\* object of the instance refers to that list
ListAppend ==
    /\ nops < MaxOps
    /\ last.op \in {"build_command", "list.append"}
    /\ command' = Append(command, CALLER_TOKEN)
    /\ last' = [NoCall EXCEPT !.op = "list.append", !.core = last.core,
                              !.use_pkexec = last.use_pkexec]
    /\ nops' = nops + 1
    /\ UNCHANGED <<heap, TASKS, OPTIONS, cores, window, hist>>
    /\ UNCHANGED <<rvars, lvars>>

CliNext ==
    \/ \E args \in ParsedArgs : SetupFedorableCore(args)
    \/ \E c \in 1..Len(cores), use_pkexec \in BOOLEAN : BuildCommand(c, use_pkexec)
    \/ ListAppend

\* the CLI's configuration step on every command line, then a caller that
\* builds commands and modifies the lists it gets
CliSpec == Init /\ [][CliNext]_vars


-----------------------------------------------------------------------------
(* The file system and the child process *)

\* the script's file appears, disappears or changes its mode while the
\* program has no child running; nothing reads it at any other time
Chmod ==
    /\ chmods < MaxChmods
    /\ pc \in {"idle", "run", "Popen", "call"}
    /\ process.state \in {"none", "reaped"}
    /\ script_ok' = ~script_ok
    /\ chmods' = chmods + 1
    /\ UNCHANGED <<lvars, vars, entry, pc, call, process, wrote, got, thread, sink, printed,
                   result, spawned, gtk>>

\* how many lines stream fd's pipe holds
InPipe(fd) == wrote[fd] - got[fd]

\* a write to stream fd is accepted at once: the stream is inherited from the
\* parent, or its pipe has room
Accepts(fd) == ~process.piped \/ InPipe(fd) < PipeCap

\* the child writes a line to stream fd, or blocks in the write when the pipe
\* is full
ChildWrite(fd) ==
    /\ process.state = "running"
    /\ process.pending = ""
    /\ wrote["stdout"] + wrote["stderr"] < MaxLines
    /\ IF Accepts(fd)
       THEN wrote' = [wrote EXCEPT ![fd] = @ + 1] /\ process' = process
       ELSE wrote' = wrote /\ process' = [process EXCEPT !.pending = fd]
    /\ UNCHANGED <<lvars, vars, script_ok, chmods, entry, pc, call, got, thread, sink, printed,
                   result, spawned, gtk>>

\* the pipe has room again: the blocked write completes
ChildUnblock ==
    /\ process.state = "running"
    /\ process.pending # ""
    /\ Accepts(process.pending)
    /\ wrote' = [wrote EXCEPT ![process.pending] = @ + 1]
    /\ process' = [process EXCEPT !.pending = ""]
    /\ UNCHANGED <<lvars, vars, script_ok, chmods, entry, pc, call, got, thread, sink, printed,
                   result, spawned, gtk>>

\* the child, not blocked in a write, ends with exit code n; its ends of the
\* pipes close
ChildExit(n) ==
    /\ process.state = "running"
    /\ process.pending = ""
    /\ process' = [process EXCEPT !.state = "exited", !.returncode = n]
    /\ UNCHANGED <<lvars, vars, script_ok, chmods, entry, pc, call, wrote, got, thread, sink,
                   printed, result, spawned, gtk>>

\* the outcomes of a spawn of `cmd_uses_pkexec`: when the script itself is the
\* program to execute and it is not executable, the spawn fails; any spawn
\* may fail for the platform's own reasons (pkexec missing, no memory)
SpawnOutcomes(uses_pkexec) ==
    IF ~uses_pkexec /\ ~script_ok THEN Diagnostics ELSE {"started"} \cup Diagnostics

-----------------------------------------------------------------------------
(* core.py, cli.py: a blocking run *)

\* the result of a blocking request
Returned(n) == [raised |-> "", detail |-> "", value |-> n]

\* a line of output of the CLI's own code
Line(stream, text, detail, code) ==
    [stream |-> stream, text |-> text, detail |-> detail, code |-> code]

\* an exception leaving FedorableCore.run ends the request, and the CLI
\* exits with it uncaught
RaisedUncaught(exc, detail) ==
    /\ pc' = "done"
    /\ printed' = printed
    /\ result' = <<[raised |-> exc, detail |-> detail, value |-> 0]>>

\* an exception leaving FedorableCore.run reported as a child's exit with
\* code 1
RaisedAsExit(exc, detail) ==
    /\ pc' = "done"
    /\ printed' = IF entry = "cli"
                  THEN Append(printed, Line("stdout", "Script exited with code: ", "", 1))
                  ELSE printed
    /\ result' = <<Returned(1)>>

\* an exception leaves FedorableCore.run: a direct caller gets it;
\* run_fedorable catches it, prints it on stderr and returns 1
Raised(exc, detail) ==
    /\ pc' = "done"
    /\ IF entry = "cli"
       THEN /\ printed' = Append(printed, Line("stderr", "Error running fedorable: ", detail, 0))
            /\ result' = <<Returned(1)>>
       ELSE /\ printed' = printed
            /\ result' = <<[raised |-> exc, detail |-> detail, value |-> 0]>>

\* cli.main until it calls fedorable.run: setup_fedorable_core on the parsed
\* arguments (the default script path; no per-task and no option argument),
\* the pre-flight check, and run_fedorable's build_command and print
CliMain(no_pkexec, all, none) ==
    /\ entry = ""
    /\ pc = "idle"
    /\ cores = <<>>
    /\ entry' = "cli"
    /\ LET r == FedorableCoreInit(heap, DEFAULT_SCRIPT_PATH)
           h1 == Preset(r.heap, r.self, all, none)
       IN  /\ heap' = h1
           /\ cores' = <<r.self>>
           /\ IF script_ok
              THEN /\ command' = build_command(h1, r.self, ~no_pkexec)
                   /\ printed' = <<Line("stdout", "Running command: ", "", 0)>>
                   /\ call' = [use_pkexec |-> ~no_pkexec, callback |-> TRUE]
                   /\ pc' = "run"
                   /\ result' = result
              ELSE /\ command' = <<>>
                   /\ printed' = <<Line("stdout",
                                        "Error: Script not found or not executable: ", "", 0)>>
                   /\ call' = call
                   /\ pc' = "done"
                   /\ result' = <<Returned(1)>>
    /\ hist' = <<IF all \/ none THEN Touched ELSE NoHist>>
    /\ last' = [NoCall EXCEPT !.op = "cli.main", !.core = 1, !.use_pkexec = ~no_pkexec]
    /\ UNCHANGED <<TASKS, OPTIONS, window, nops, script_ok, chmods, process, wrote, got,
                   thread, sink, spawned, gtk,
                   lvars>>

\* a caller other than the CLI calls run(use_pkexec, callback) on the
\* instance it has constructed
CallRun(use_pkexec, callback) ==
    /\ entry = ""
    /\ pc = "idle"
    /\ Len(cores) = 1
    /\ window = <<>>
    /\ entry' = "run"
    /\ call' = [use_pkexec |-> use_pkexec, callback |-> callback]
    /\ pc' = "run"
    /\ UNCHANGED <<lvars, vars, script_ok, chmods, process, wrote, got, thread, sink, printed,
                   result, spawned, gtk>>

\* FedorableCore.run building the command before it checks the script
RunBuildsFirst ==
    /\ pc = "run"
    /\ command' = build_command(heap, cores[1], call.use_pkexec)
    /\ IF script_ok
       THEN /\ pc' = IF call.callback THEN "Popen" ELSE "call"
            /\ UNCHANGED <<printed, result>>
       ELSE Raised("FileNotFoundError", "Script not found or not executable: ")
    /\ UNCHANGED <<heap, TASKS, OPTIONS, cores, window, last, hist, nops, script_ok, chmods,
                   entry, call, process, wrote, got, thread, sink, spawned, gtk,
                   lvars>>

\* FedorableCore.run up to the spawn: the pre-flight check, then build_command
RunPreflight ==
    /\ pc = "run"
    /\ IF script_ok
       THEN /\ command' = build_command(heap, cores[1], call.use_pkexec)
            /\ pc' = IF call.callback THEN "Popen" ELSE "call"
            /\ UNCHANGED <<printed, result>>
       ELSE /\ command' = command
            /\ Raised("FileNotFoundError", "Script not found or not executable: ")
    /\ UNCHANGED <<heap, TASKS, OPTIONS, cores, window, last, hist, nops, script_ok, chmods,
                   entry, call, process, wrote, got, thread, sink, spawned, gtk,
                   lvars>>

\* a child with its output on two new pipes / on the parent's streams
Child(piped) == [state |-> "running", pending |-> "", returncode |-> 0, piped |-> piped]

\* subprocess.Popen(command, stdout=PIPE, stderr=PIPE, text=True)
Popen(outcome) ==
    /\ pc = "Popen"
    /\ spawned' = Append(spawned, outcome)
    /\ IF outcome = "started"
       THEN /\ process' = Child(TRUE)
            /\ pc' = "start_1"
            /\ UNCHANGED <<printed, result>>
       ELSE /\ process' = process
            /\ Raised("OSError", outcome)
    /\ UNCHANGED <<lvars, vars, script_ok, chmods, entry, call, wrote, got, thread, sink, gtk>>

\* the (pipe, is_stderr) pairs the threads are created for, in order
ThreadArgsSwapped ==
    << [pipe |-> "stdout", is_stderr |-> TRUE], [pipe |-> "stderr", is_stderr |-> FALSE] >>

ThreadArgs ==
    << [pipe |-> "stdout", is_stderr |-> FALSE], [pipe |-> "stderr", is_stderr |-> TRUE] >>

\* one round of the loop that creates and starts the threads
StartThread ==
    /\ pc \in {"start_1", "start_2"}
    /\ LET i == IF pc = "start_1" THEN 1 ELSE 2
       IN  thread' = [thread EXCEPT ![i] = "reading"]
    /\ pc' = IF pc = "start_1" THEN "start_2" ELSE "wait"
    /\ UNCHANGED <<lvars, vars, script_ok, chmods, entry, call, process, wrote, got, sink, printed,
                   result, spawned, gtk>>

\* process.wait() returning without the child having ended
WaitReturnsEarly ==
    /\ pc = "wait"
    /\ process' = process
    /\ pc' = "join_1"
    /\ UNCHANGED <<lvars, vars, script_ok, chmods, entry, call, wrote, got, thread, sink, printed,
                   result, spawned, gtk>>

\* process.wait() returns: the child has ended
Wait ==
    /\ pc = "wait"
    /\ process.state = "exited"
    /\ process' = [process EXCEPT !.state = "reaped"]
    /\ pc' = "join_1"
    /\ UNCHANGED <<lvars, vars, script_ok, chmods, entry, call, wrote, got, thread, sink, printed,
                   result, spawned, gtk>>

\* the threads that have ended
Ended == {"done", "failed"}

\* the loop over thread.join() not waiting for the threads
JoinNoWait ==
    /\ pc \in {"join_1", "join_2"}
    /\ pc' = IF pc = "join_1" THEN "join_2" ELSE "return"
    /\ UNCHANGED <<lvars, vars, script_ok, chmods, entry, call, process, wrote, got, thread, sink,
                   printed, result, spawned, gtk>>

\* one round of the loop over thread.join(): the thread has ended
Join ==
    /\ pc \in {"join_1", "join_2"}
    /\ thread[IF pc = "join_1" THEN 1 ELSE 2] \in Ended
    /\ pc' = IF pc = "join_1" THEN "join_2" ELSE "return"
    /\ UNCHANGED <<lvars, vars, script_ok, chmods, entry, call, process, wrote, got, thread, sink,
                   printed, result, spawned, gtk>>

\* subprocess.call(command): the spawn, the child's output on the parent's
\* own streams
Call(outcome) ==
    /\ pc = "call"
    /\ spawned' = Append(spawned, outcome)
    /\ IF outcome = "started"
       THEN /\ process' = Child(FALSE)
            /\ pc' = "call_wait"
            /\ UNCHANGED <<printed, result>>
       ELSE /\ process' = process
            /\ Raised("OSError", outcome)
    /\ UNCHANGED <<lvars, vars, script_ok, chmods, entry, call, wrote, got, thread, sink, gtk>>

\* subprocess.call(command): the wait for the child
CallWait ==
    /\ pc = "call_wait"
    /\ process.state = "exited"
    /\ process' = [process EXCEPT !.state = "reaped"]
    /\ pc' = "return"
    /\ UNCHANGED <<lvars, vars, script_ok, chmods, entry, call, wrote, got, thread, sink, printed,
                   result, spawned, gtk>>

\* run returning 0 whatever the child's exit code was
ReturnZero ==
    /\ pc = "return"
    /\ pc' = "done"
    /\ result' = <<Returned(0)>>
    /\ printed' = IF entry = "cli"
                  THEN Append(printed, Line("stdout", "Script exited with code: ", "", 0))
                  ELSE printed
    /\ UNCHANGED <<lvars, vars, script_ok, chmods, entry, call, process, wrote, got, thread, sink,
                   spawned, gtk>>

\* run returns the child's exit code; run_fedorable prints it and returns it,
\* and so does cli.main
Return ==
    /\ pc = "return"
    /\ pc' = "done"
    /\ result' = <<Returned(process.returncode)>>
    /\ printed' = IF entry = "cli"
                  THEN Append(printed, Line("stdout", "Script exited with code: ", "",
                                            process.returncode))
                  ELSE printed
    /\ UNCHANGED <<lvars, vars, script_ok, chmods, entry, call, process, wrote, got, thread, sink,
                   spawned, gtk>>

-----------------------------------------------------------------------------
(* core.py: _read_output, the body of the two threads *)

\* `for line in pipe` holding every line back until the child has ended
ReadLineAtExit(i) ==
    /\ thread[i] = "reading"
    /\ process.state # "running"
    /\ got[ThreadArgs[i].pipe] < wrote[ThreadArgs[i].pipe]
    /\ got' = [got EXCEPT ![ThreadArgs[i].pipe] = @ + 1]
    /\ thread' = [thread EXCEPT ![i] = "callback"]
    /\ UNCHANGED <<lvars, vars, script_ok, chmods, entry, pc, call, process, wrote, sink, printed,
                   result, spawned, gtk>>

\* the stderr pipe read only once the stdout pipe is read to its end: the two
\* pipes drained one after the other
ReadLineSequential(i) ==
    /\ thread[i] = "reading"
    /\ i = 1 \/ thread[1] \in Ended
    /\ got[ThreadArgs[i].pipe] < wrote[ThreadArgs[i].pipe]
    /\ got' = [got EXCEPT ![ThreadArgs[i].pipe] = @ + 1]
    /\ thread' = [thread EXCEPT ![i] = "callback"]
    /\ UNCHANGED <<lvars, vars, script_ok, chmods, entry, pc, call, process, wrote, sink, printed,
                   result, spawned, gtk>>

\* `for line in pipe`: the next line of the pipe
ReadLine(i) ==
    /\ thread[i] = "reading"
    /\ got[ThreadArgs[i].pipe] < wrote[ThreadArgs[i].pipe]
    /\ got' = [got EXCEPT ![ThreadArgs[i].pipe] = @ + 1]
    /\ thread' = [thread EXCEPT ![i] = "callback"]
    /\ UNCHANGED <<lvars, vars, script_ok, chmods, entry, pc, call, process, wrote, sink, printed,
                   result, spawned, gtk>>

\* callback(line, is_stderr) called twice for the line
CallbackTwice(i) ==
    /\ thread[i] = "callback"
    /\ LET e == [line |-> [fd |-> ThreadArgs[i].pipe, k |-> got[ThreadArgs[i].pipe]],
                 is_stderr |-> ThreadArgs[i].is_stderr]
       IN  sink' = sink \o <<e, e>>
    /\ thread' = [thread EXCEPT ![i] = "reading"]
    /\ UNCHANGED <<lvars, vars, script_ok, chmods, entry, pc, call, process, wrote, got, printed,
                   result, spawned, gtk>>

\* callback(line, is_stderr): the line just read reaches the sink
Callback(i) ==
    /\ thread[i] = "callback"
    /\ sink' = Append(sink, [line |-> [fd |-> ThreadArgs[i].pipe,
                                       k |-> got[ThreadArgs[i].pipe]],
                             is_stderr |-> ThreadArgs[i].is_stderr])
    /\ thread' = [thread EXCEPT ![i] = "reading"]
    /\ UNCHANGED <<lvars, vars, script_ok, chmods, entry, pc, call, process, wrote, got, printed,
                   result, spawned, gtk>>

\* `for line in pipe` ends: the pipe is empty and the child's end is closed
ReadEOF(i) ==
    /\ thread[i] = "reading"
    /\ got[ThreadArgs[i].pipe] = wrote[ThreadArgs[i].pipe]
    /\ process.state \in {"exited", "reaped"}
    /\ thread' = [thread EXCEPT ![i] = "done"]
    /\ UNCHANGED <<lvars, vars, script_ok, chmods, entry, pc, call, process, wrote, got, sink,
                   printed, result, spawned, gtk>>

\* the read of the pipe (an I/O error, undecodable bytes) or the callback
\* raises: nothing in the thread catches it, the thread ends, its pipe stays
\* open and unread
ThreadRaises(i) ==
    /\ thread[i] \in {"reading", "callback"}
    /\ thread' = [thread EXCEPT ![i] = "failed"]
    /\ UNCHANGED <<lvars, vars, script_ok, chmods, entry, pc, call, process, wrote, got, sink,
                   printed, result, spawned, gtk>>

-----------------------------------------------------------------------------
(* main.py: a run from the window *)

Chunk(tag, text, lines) == [tag |-> tag, text |-> text, lines |-> lines]

Status(text, code) == [text |-> text, code |-> code]

\* _finalize_run classifying by the exit status in the error path as well
FinalizeByStatus(g, success, exit_status) ==
    [g EXCEPT !.status = IF exit_status = 0
                         THEN Status("Maintenance finished successfully.", 0)
                         ELSE Status("Maintenance failed (Exit Code: ). Check output.",
                                     exit_status),
              !.output = Append(@, IF exit_status = 0
                                   THEN Chunk("stdout", "--- Maintenance Finished Successfully ---", 0)
                                   ELSE Chunk("stderr", "--- Maintenance Failed (Exit Code: ) ---", 0)),
              !.sensitive = TRUE,
              !.finalized = Append(@, [success |-> exit_status = 0, exit_status |-> exit_status])]

\* _finalize_run(success, exit_status) on window state g
Finalize(g, success, exit_status) ==
    [g EXCEPT !.status = IF success
                         THEN Status("Maintenance finished successfully.", 0)
                         ELSE Status("Maintenance failed (Exit Code: ). Check output.",
                                     exit_status),
              !.output = Append(@, IF success
                                   THEN Chunk("stdout", "--- Maintenance Finished Successfully ---", 0)
                                   ELSE Chunk("stderr", "--- Maintenance Failed (Exit Code: ) ---", 0)),
              !.sensitive = TRUE,
              !.finalized = Append(@, [success |-> success, exit_status |-> exit_status])]

\* _handle_process_error(log_message, error_details) on window state g
HandleProcessError(g, error_details) ==
    Finalize(ShowErrorDialog(g, "Error Starting Process", error_details), FALSE, -1)

\* on_run_clicked spawning without the pre-flight check
ClickNoPreflight(outcome) ==
    /\ window # <<>>
    /\ entry \in {"", "gui"}
    /\ gtk.clicks < MaxClicks
    /\ entry' = "gui"
    /\ LET self == cores[window[1].fedorable]
           h1 == CopyWidgets(heap, self.tasks, window[1].task_checkboxes)
           h2 == CopyWidgets(h1, self.options, window[1].option_switches)
           g == [gtk EXCEPT !.clicks = @ + 1]
       IN  /\ heap' = h2
           /\ command' = build_command(h2, self, TRUE)
           /\ spawned' = Append(spawned, outcome)
           /\ process' = Child(TRUE)
           /\ wrote' = [fd \in Streams |-> 0]
           /\ got' = [fd \in Streams |-> 0]
           /\ gtk' = [g EXCEPT !.process = TRUE, !.communicating = TRUE,
                               !.sensitive = FALSE]
    /\ UNCHANGED <<TASKS, OPTIONS, cores, window, last, hist, nops, script_ok, chmods, pc,
                   call, thread, sink, printed, result,
                   lvars>>

\* `if self.process` deciding that a run is in progress without looking at
\* the marker
AlreadyRunningNever(g) == FALSE

\* `if self.process`: a run is in progress
AlreadyRunning(g) == g.process

\* how communicate_utf8_async can end: it registers the completion callback,
\* or raises
AsyncOutcomes == {"", "Exception"}

\* FedorableMainWindow.on_run_clicked
Click(outcome, async) ==
    /\ window # <<>>
    /\ entry \in {"", "gui"}
    /\ gtk.clicks < MaxClicks
    /\ entry' = "gui"
    /\ LET self == cores[window[1].fedorable]
           h1 == CopyWidgets(heap, self.tasks, window[1].task_checkboxes)
           h2 == CopyWidgets(h1, self.options, window[1].option_switches)
           g == [gtk EXCEPT !.clicks = @ + 1]
           running == [g EXCEPT !.output = <<Chunk("stdout", "Running command: ", 0)>>,
                                !.status = Status("Starting maintenance...", 0),
                                !.sensitive = FALSE]
       IN  IF AlreadyRunning(gtk)
           THEN /\ gtk' = [g EXCEPT !.status = Status("Maintenance is already running.", 0)]
                /\ UNCHANGED <<heap, command, spawned, process, wrote, got>>
           ELSE IF ~script_ok
           THEN /\ gtk' = ShowErrorDialog(g, "Error: Script not found or not executable",
                                          "Cannot run: ")
                /\ UNCHANGED <<heap, command, spawned, process, wrote, got>>
           ELSE /\ heap' = h2
                /\ command' = build_command(h2, self, TRUE)
                /\ spawned' = Append(spawned, outcome)
                /\ IF outcome = "started"
                   THEN /\ process' = Child(TRUE)
                        /\ wrote' = [fd \in Streams |-> 0]
                        /\ got' = [fd \in Streams |-> 0]
                        /\ gtk' = IF async = ""
                                  THEN [running EXCEPT !.process = TRUE,
                                                       !.communicating = TRUE]
                                  ELSE HandleProcessError([running EXCEPT !.process = TRUE],
                                                          async)
                   ELSE /\ gtk' = HandleProcessError(running, outcome)
                        /\ UNCHANGED <<process, wrote, got>>
    /\ UNCHANGED <<TASKS, OPTIONS, cores, window, last, hist, nops, script_ok, chmods, pc,
                   call, thread, sink, printed, result,
                   lvars>>

\* Gio takes a line from the pipe of stream fd into its buffer
GioRead(fd) ==
    /\ gtk.communicating
    /\ got[fd] < wrote[fd]
    /\ got' = [got EXCEPT ![fd] = @ + 1]
    /\ UNCHANGED <<lvars, vars, script_ok, chmods, entry, pc, call, process, wrote, thread, sink,
                   printed, result, spawned, gtk>>

\* how communicate_utf8_finish can end: it returns the data, or raises
FinishOutcomes == {"", "GLib.Error"}

\* the data communicate_utf8_finish returns, as the chunks appended
Data ==
    (IF wrote["stdout"] > 0 THEN <<Chunk("stdout", "stdout_data", wrote["stdout"])>> ELSE <<>>)
        \o (IF wrote["stderr"] > 0
            THEN <<Chunk("stderr", "stderr_data", wrote["stderr"])>> ELSE <<>>)

\* _on_process_communication_finished: the child has ended and both streams
\* are read to their end
Finished(err) ==
    /\ gtk.communicating
    /\ process.state = "exited"
    /\ \A fd \in Streams : got[fd] = wrote[fd]
    /\ process' = [process EXCEPT !.state = "reaped"]
    /\ LET exit_status == process.returncode
           done == IF err = ""
                   THEN Finalize([gtk EXCEPT !.output = @ \o Data],
                                 exit_status = 0, exit_status)
                   ELSE Finalize([gtk EXCEPT !.output =
                                     Append(@, Chunk("stderr", "[GUI Communication Error: ]", 0))],
                                 FALSE, exit_status)
       IN  gtk' = [done EXCEPT !.process = FALSE, !.communicating = FALSE]
    /\ UNCHANGED <<lvars, vars, script_ok, chmods, entry, pc, call, wrote, got, thread, sink,
                   printed, result, spawned>>

-----------------------------------------------------------------------------
(* The program with its runs *)

MainThread ==
    \/ RunPreflight
    \/ \E outcome \in SpawnOutcomes(call.use_pkexec) : Popen(outcome)
    \/ StartThread
    \/ Wait
    \/ Join
    \/ \E outcome \in SpawnOutcomes(call.use_pkexec) : Call(outcome)
    \/ CallWait
    \/ Return

Reader(i) == ReadLine(i) \/ Callback(i) \/ ReadEOF(i)

RunNext ==
    \/ cores = <<>> /\ New(None)
    \/ cores = <<>> /\ Activate
    \/ Chmod
    \/ \E no_pkexec \in BOOLEAN, none \in BOOLEAN : CliMain(no_pkexec, FALSE, none)
    \/ \E use_pkexec \in BOOLEAN, callback \in BOOLEAN : CallRun(use_pkexec, callback)
    \/ RunPreflight
    \/ \E outcome \in SpawnOutcomes(call.use_pkexec) : Popen(outcome)
    \/ StartThread
    \/ Wait
    \/ Join
    \/ \E outcome \in SpawnOutcomes(call.use_pkexec) : Call(outcome)
    \/ CallWait
    \/ Return
    \/ \E fd \in Streams : ChildWrite(fd)
    \/ ChildUnblock
    \/ \E n \in ExitCodes : ChildExit(n)
    \/ \E i \in 1..2 : ReadLine(i)
    \/ \E i \in 1..2 : Callback(i)
    \/ \E i \in 1..2 : ReadEOF(i)
    \/ \E i \in 1..2 : ThreadRaises(i)
    \/ \E outcome \in SpawnOutcomes(TRUE), async \in AsyncOutcomes : Click(outcome, async)
    \/ \E fd \in Streams : GioRead(fd)
    \/ \E err \in FinishOutcomes : Finished(err)

\* every run, in every interleaving, with no assumption on scheduling
RunSpec == Init /\ [][RunNext]_allvars

\* the scheduler runs every thread that can take a step, Gio's main loop
\* runs, and the child goes on when it can and ends
FairRun ==
    /\ Init
    /\ [][RunNext]_allvars
    /\ WF_allvars(MainThread)
    /\ \A i \in 1..2 : WF_allvars(Reader(i))
    /\ WF_allvars(ChildUnblock)
    /\ WF_allvars(\E n \in ExitCodes : ChildExit(n))
    /\ WF_allvars(\E fd \in Streams : GioRead(fd))
    /\ WF_allvars(\E err \in FinishOutcomes : Finished(err))

\* the scheduler runs every thread of the program that can take a step; the
\* child is free to stop writing and never to end
FairReaders ==
    /\ Init
    /\ [][RunNext]_allvars
    /\ WF_allvars(MainThread)
    /\ \A i \in 1..2 : WF_allvars(Reader(i))

-----------------------------------------------------------------------------
(* The window with its runs *)

\* Gio's main loop: the reads of the two pipes and the completion callback
GioLoop ==
    \/ \E fd \in Streams : GioRead(fd)
    \/ \E err \in FinishOutcomes : Finished(err)

WindowNext ==
    \/ Activate
    \/ \E key \in TaskInputs : ToggleCheckbox(key)
    \/ \E key \in OptionInputs : ToggleSwitch(key)
    \/ Chmod
    \/ \E outcome \in SpawnOutcomes(TRUE), async \in AsyncOutcomes : Click(outcome, async)
    \/ \E fd \in Streams : ChildWrite(fd)
    \/ ChildUnblock
    \/ \E n \in ExitCodes : ChildExit(n)
    \/ \E fd \in Streams : GioRead(fd)
    \/ \E err \in FinishOutcomes : Finished(err)

\* the application: the user's clicks, the child, Gio's main loop, with no
\* assumption on scheduling
WindowSpec == Init /\ [][WindowNext]_allvars

\* Gio's main loop runs, and the child goes on when it can and ends
FairWindow ==
    /\ Init
    /\ [][WindowNext]_allvars
    /\ WF_allvars(GioLoop)
    /\ WF_allvars(ChildUnblock)
    /\ WF_allvars(\E n \in ExitCodes : ChildExit(n))

\* Gio's main loop runs; the child is free to stop writing and never to end
FairGio ==
    /\ Init
    /\ [][WindowNext]_allvars
    /\ WF_allvars(GioLoop)

-----------------------------------------------------------------------------
(* window.py, tasks.py: the legacy task window *)

\* the rows of the task list, by index, and the method run_tasks calls for
\* each
TASK_METHODS ==
    << "backup_system_config", "update_system", "cleanup_system", "cleanup_user_data" >>

\* what _get_selected_tasks can return: the indices of the active switches,
\* ascending (indices from 0, as in the code)
Selections ==
    {<<>>, <<0>>, <<1>>, <<2>>, <<3>>, <<0, 1>>, <<0, 2>>, <<0, 3>>, <<1, 2>>, <<1, 3>>,
     <<2, 3>>, <<0, 1, 2>>, <<0, 1, 3>>, <<0, 2, 3>>, <<1, 2, 3>>, <<0, 1, 2, 3>>}

\* how a task method can end. backup_system_config and update_system catch
\* subprocess.CalledProcessError only: a missing `cp` or `dnf` makes
\* subprocess.run raise FileNotFoundError, and mkdir can raise OSError.
\* cleanup_system and cleanup_user_data catch Exception.
TaskOutcomes(method) ==
    IF method = "backup_system_config" THEN {"returned", "OSError", "FileNotFoundError"}
    ELSE IF method = "update_system" THEN {"returned", "FileNotFoundError"}
    ELSE {"returned"}

\* FedorableWindow(...): SystemTasks() raises PermissionError unless the
\* effective user is root
LegacyNew(euid) ==
    /\ ~legacy.exists
    /\ legacy.raised = ""
    /\ legacy' = IF euid = 0
                 THEN [NoLegacy EXCEPT !.exists = TRUE, !.run_button = TRUE,
                                       !.visible_child = "tasks"]
                 ELSE [NoLegacy EXCEPT !.raised = "PermissionError"]
    /\ UNCHANGED <<vars, rvars>>

\* on_run_clicked with `selected` the result of _get_selected_tasks, up to
\* the loop of run_tasks
OnRunClicked(selected) ==
    /\ legacy.exists
    /\ legacy.run_button
    /\ ~legacy.in_run_tasks
    /\ legacy.runs < MaxRuns
    /\ legacy' = IF selected = <<>>
                 THEN [legacy EXCEPT !.dialogs = @ + 1, !.runs = @ + 1]
                 ELSE [legacy EXCEPT !.run_button = FALSE,
                                     !.visible_child = "progress",
                                     !.queue = selected,
                                     !.i = 0,
                                     !.total_tasks = Len(selected),
                                     !.in_run_tasks = TRUE,
                                     !.raised = "",
                                     !.runs = @ + 1]
    /\ UNCHANGED <<vars, rvars>>

\* one round of the loop of run_tasks: the task method returns, or raises
\* and the exception leaves run_tasks
RunTask(outcome) ==
    /\ legacy.in_run_tasks
    /\ legacy.queue # <<>>
    /\ outcome \in TaskOutcomes(TASK_METHODS[Head(legacy.queue) + 1])
    /\ legacy' = IF outcome = "returned"
                 THEN [legacy EXCEPT !.queue = Tail(@), !.i = @ + 1, !.status = "Running ..."]
                 ELSE [legacy EXCEPT !.in_run_tasks = FALSE, !.raised = outcome,
                                     !.status = "Running ..."]
    /\ UNCHANGED <<vars, rvars>>

\* run_tasks after the loop: "Reset UI state"
ResetUI ==
    /\ legacy.in_run_tasks
    /\ legacy.queue = <<>>
    /\ legacy' = [legacy EXCEPT !.status = "Tasks completed!", !.run_button = TRUE,
                                !.visible_child = "tasks", !.in_run_tasks = FALSE]
    /\ UNCHANGED <<vars, rvars>>

LegacyNext ==
    \/ \E euid \in {0, 1000} : LegacyNew(euid)
    \/ \E selected \in Selections : OnRunClicked(selected)
    \/ \E outcome \in {"returned", "OSError", "FileNotFoundError"} : RunTask(outcome)
    \/ ResetUI

LegacySpec == Init /\ [][LegacyNext]_allvars

-----------------------------------------------------------------------------
(* Vocabulary of the properties *)

\* the last operation compiled a command for instance last.core with
\* last.use_pkexec, and `command` is that command
Compiled ==
    \/ last.op = "build_command"
    \/ last.op = "window.build_command"
    \/ last.op = "run" /\ last.err # "FileNotFoundError"

\* the arguments of a compiled command: the tokens after the script path
Args(cmd, use_pkexec) == SubSeq(cmd, IF use_pkexec THEN 3 ELSE 2, Len(cmd))

\* the object instance `self` holds for the i-th entry of registry dict reg
TaskOf(self, i) == heap[Lookup(self.tasks, TASKS[i].key)]
OptionOf(self, i) == heap[Lookup(self.options, OPTIONS[i].key)]

\* the task entries of the registry, in registry order up to the i-th, that
\* are disabled in `self`: their flags
RECURSIVE DisabledTaskFlags(_, _)
DisabledTaskFlags(self, i) ==
    IF i = 0 THEN <<>>
    ELSE DisabledTaskFlags(self, i - 1)
             \o (IF TaskOf(self, i).enabled THEN <<>> ELSE <<TaskOf(self, i).flag>>)

RECURSIVE EnabledOptionFlags(_, _)
EnabledOptionFlags(self, i) ==
    IF i = 0 THEN <<>>
    ELSE EnabledOptionFlags(self, i - 1)
             \o (IF OptionOf(self, i).enabled THEN <<OptionOf(self, i).flag>> ELSE <<>>)

\* the enabled states of an instance's tasks and of its options, by key order
TaskStates(h, self) == [i \in 1..Len(self.tasks) |-> h[self.tasks[i].ref].enabled]
OptionStates(h, self) == [i \in 1..Len(self.options) |-> h[self.options[i].ref].enabled]

\* how many tasks of instance c are disabled / options are enabled
NumDisabled(c) == Cardinality({i \in 1..Len(cores[c].tasks) : ~TaskStates(heap, cores[c])[i]})
NumEnabledOptions(c) ==
    Cardinality({i \in 1..Len(cores[c].options) : OptionStates(heap, cores[c])[i]})

-----------------------------------------------------------------------------
(* C1 .. C10 *)

\* C1: build_command returns exactly: 'pkexec' when use_pkexec, then
\* script_path, then the flag of every disabled task in registry order, then
\* the flag of every enabled option in registry order, and nothing else.
C1_ExactSequence ==
    Compiled =>
        command = (IF last.use_pkexec THEN <<PKEXEC>> ELSE <<>>)
                      \o <<cores[last.core].script_path>>
                      \o DisabledTaskFlags(cores[last.core], Len(TASKS))
                      \o EnabledOptionFlags(cores[last.core], Len(OPTIONS))

\* a command built with pkexec from an instance with several tasks disabled
\* and an option enabled
C1_Witness ==
    /\ last.op = "build_command"
    /\ last.use_pkexec
    /\ NumDisabled(last.core) >= 2
    /\ NumEnabledOptions(last.core) >= 1
    /\ Len(command) >= 5

\* C2: among the arguments of the compiled command, the flag of task t occurs
\* zero times when t is enabled and exactly once when t is disabled (so with
\* only `update` disabled the one task flag is the one of `update`).
C2_TaskFlagCount ==
    Compiled =>
        \A i \in 1..Len(cores[last.core].tasks) :
            LET t == heap[cores[last.core].tasks[i].ref]
            IN  Count(Args(command, last.use_pkexec), t.flag) = IF t.enabled THEN 0 ELSE 1

\* a command compiled with `update` the only disabled task
C2_Witness ==
    /\ last.op = "build_command"
    /\ NumDisabled(last.core) = 1
    /\ ~heap[Lookup(cores[last.core].tasks, <<"update">>)].enabled
    /\ Args(command, last.use_pkexec) = <<<<"-", "-", "no", "-", "update">>>>

\* C3: among the arguments of the compiled command, the flag of option o
\* occurs zero times when o is disabled and exactly once when o is enabled.
C3_OptionFlagCount ==
    Compiled =>
        \A i \in 1..Len(cores[last.core].options) :
            LET o == heap[cores[last.core].options[i].ref]
            IN  Count(Args(command, last.use_pkexec), o.flag) = IF o.enabled THEN 1 ELSE 0

\* a command compiled with one option enabled and the others disabled
C3_Witness ==
    /\ last.op = "build_command"
    /\ NumEnabledOptions(last.core) = 1
    /\ Count(command, <<"-", "-", "dry", "-", "run">>) = 1

\* C4 as stated: without use_pkexec the command holds no 'pkexec' token
\* anywhere; with use_pkexec 'pkexec' is first and the script path second.
C4_Original ==
    Compiled =>
        IF last.use_pkexec
        THEN command[1] = PKEXEC /\ command[2] = cores[last.core].script_path
        ELSE Count(command, PKEXEC) = 0

\* C4 amended: without use_pkexec the script path is first and no token after
\* it is 'pkexec', so the command holds 'pkexec' only when script_path is
\* itself 'pkexec'; with use_pkexec 'pkexec' is first and the script path
\* second.
C4_Amended ==
    Compiled =>
        IF last.use_pkexec
        THEN command[1] = PKEXEC /\ command[2] = cores[last.core].script_path
        ELSE /\ command[1] = cores[last.core].script_path
             /\ Count(Args(command, FALSE), PKEXEC) = 0
             /\ Count(command, PKEXEC) = IF cores[last.core].script_path = PKEXEC THEN 1 ELSE 0

\* a command compiled without use_pkexec, with flags, for script_path 'pkexec'
C4_Witness ==
    /\ last.op = "build_command"
    /\ ~last.use_pkexec
    /\ cores[last.core].script_path = PKEXEC
    /\ Len(command) > 1

\* C5: a build_command call that follows an earlier call with the same
\* use_pkexec on the same instance, with no write to the instance in between,
\* returns the same sequence as the earlier call.
C5_Deterministic ==
    [][(last'.op = "build_command" /\ last'.again)
           => command' = hist[last'.core].built[last'.use_pkexec][1]]_vars

\* a repeated build_command call on an instance with flags to emit, made
\* after another operation came between the two calls
C5_Witness ==
    /\ last.op = "build_command"
    /\ last.again
    /\ nops = MaxOps
    /\ Len(command) > 2


\* C6: an instance no write has touched since its construction has every
\* task enabled and every option disabled, and a command compiled from it is
\* exactly [script_path], or ['pkexec', script_path] with use_pkexec.
C6_FreshDefaults ==
    /\ \A c \in 1..Len(cores) :
           hist[c].fresh =>
               /\ \A i \in 1..Len(TASKS) : TaskOf(cores[c], i).enabled
               /\ \A i \in 1..Len(OPTIONS) : ~OptionOf(cores[c], i).enabled
               /\ Len(cores[c].tasks) = Len(TASKS)
               /\ Len(cores[c].options) = Len(OPTIONS)
    /\ (Compiled /\ hist[last.core].fresh) =>
           command = IF last.use_pkexec
                     THEN <<PKEXEC, cores[last.core].script_path>>
                     ELSE <<cores[last.core].script_path>>

\* a command compiled with pkexec from the second instance, still untouched,
\* after the first instance was written
C6_Witness ==
    /\ last.op = "build_command"
    /\ last.use_pkexec
    /\ last.core = 2
    /\ hist[2].fresh
    /\ ~hist[1].fresh

\* the task flags among the arguments of a command
TaskFlagsIn(self, args) ==
    {i \in 1..Len(args) : \E j \in 1..Len(self.tasks) : heap[self.tasks[j].ref].flag = args[i]}

RegistryDefaults ==
    /\ Keys(TASKS) = TASK_NAMES
    /\ Keys(OPTIONS) = OPTION_NAMES
    /\ \A i \in 1..Len(TASKS) : heap[TASKS[i].ref].enabled
    /\ \A i \in 1..Len(OPTIONS) : ~heap[OPTIONS[i].ref].enabled

\* C8: no step changes an enabled state of the registries or of an instance
\* other than the one the operation is applied to, and an instance starts
\* from the registry defaults whatever was done to the others before.
C8_CloneIndependence ==
    /\ []RegistryDefaults
    /\ [][\A d \in 1..Len(cores) :
              d # last'.core =>
                  /\ TaskStates(heap', cores'[d]) = TaskStates(heap, cores[d])
                  /\ OptionStates(heap', cores'[d]) = OptionStates(heap, cores[d])]_vars
    /\ [](last.op \in {"__init__", "activate"} =>
              /\ \A i \in 1..Len(TASKS) : TaskOf(cores[last.core], i).enabled
              /\ \A i \in 1..Len(OPTIONS) : ~OptionOf(cores[last.core], i).enabled)

\* a second instance constructed after tasks of the first were disabled and
\* an option of it enabled
C8_Witness ==
    /\ last.op = "__init__"
    /\ last.core = 2
    /\ NumDisabled(1) >= 1
    /\ NumEnabledOptions(1) >= 1
    /\ NumDisabled(2) = 0


\* C9: the keys of every instance's tasks and options are the keys of the
\* registries, in registry order, in every state; and no step changes the
\* keys or the script_path of an instance that exists.
C9_KeysAndPathFixed ==
    /\ [](\A c \in 1..Len(cores) :
              /\ Keys(cores[c].tasks) = Keys(TASKS)
              /\ Keys(cores[c].options) = Keys(OPTIONS))
    /\ [][\A c \in 1..Len(cores) :
              /\ cores'[c].script_path = cores[c].script_path
              /\ Keys(cores'[c].tasks) = Keys(cores[c].tasks)
              /\ Keys(cores'[c].options) = Keys(cores[c].options)]_vars

\* the window has copied a clicked checkbox into its instance, which was
\* constructed second, and compiled
C9_Witness ==
    /\ last.op = "window.build_command"
    /\ last.core = 2
    /\ NumDisabled(2) = 1
    /\ cores[2].script_path = DEFAULT_SCRIPT_PATH
    /\ Keys(cores[2].tasks) = TASK_NAMES

\* the operations that set one enabled state by name: the subscript forms of
\* cli.py and the guarded forms of main.py
SubscriptOps == {"tasks[]=", "options[]="}
GuardedOps == {"if in tasks: tasks[]=", "if in options: options[]="}

\* the dict of instance `self` a set-by-name operation reads
DictOf(self, op) ==
    IF op \in {"tasks[]=", "if in tasks: tasks[]="} THEN self.tasks ELSE self.options

\* a step that sets by a name the dict has writes that entry and no other
\* object; one that sets by a name the dict lacks writes nothing
SetsOnlyThatKey ==
    LET d == DictOf(cores[last'.core], last'.op)
    IN  IF HasKey(d, last'.key)
        THEN /\ last'.err = ""
             /\ heap' = [heap EXCEPT ![Lookup(d, last'.key)].enabled = last'.value]
        ELSE heap' = heap

C10_WitnessKeyError ==
    /\ last.op \in SubscriptOps
    /\ last.key = UNKNOWN_NAME
    /\ last.err = "KeyError"
    /\ ~hist[last.core].fresh

-----------------------------------------------------------------------------
(* Vocabulary of the properties of a run *)

\* the request came through FedorableCore.run, from the CLI or directly
Blocking == entry \in {"run", "cli"}

\* the lines the child has written to stream fd, in order
Written(fd) == [k \in 1..wrote[fd] |-> [fd |-> fd, k |-> k]]

\* the lines the sink has received with tag is_stderr, in order
RECURSIVE Tagged(_, _)
Tagged(deliveries, is_stderr) ==
    IF deliveries = <<>> THEN <<>>
    ELSE (IF Head(deliveries).is_stderr = is_stderr THEN <<Head(deliveries).line>> ELSE <<>>)
             \o Tagged(Tail(deliveries), is_stderr)

\* how often the sink has received line l
Deliveries(l) == Cardinality({j \in 1..Len(sink) : sink[j].line = l})

\* a reader thread has ended by an exception
ReaderFailed == \E i \in 1..2 : thread[i] = "failed"

\* the outcome of the last spawn attempt
LastSpawn == spawned[Len(spawned)]

\* the blocking request has ended after its only spawn failed
SpawnFailedBlocking == Blocking /\ pc = "done" /\ spawned # <<>> /\ LastSpawn # "started"

\* the blocking request has ended by run returning the exit code of a child
Completed == Blocking /\ pc = "done" /\ spawned # <<>> /\ LastSpawn = "started"

-----------------------------------------------------------------------------
(* C11 .. C20 *)

\* C11: when is_script_executable is false at the check of a run request, no
\* child is launched and the failure is reported at once: FedorableCore.run
\* raises FileNotFoundError with no command built and nothing spawned;
\* cli.main prints an error and returns 1; the window shows an error dialog,
\* sets no process marker and leaves its controls enabled.
C11_PreflightFalse ==
    /\ [][(pc = "run" /\ pc' # "run" /\ ~script_ok) =>
              /\ spawned' = spawned
              /\ process' = process
              /\ command' = command
              /\ pc' = "done"
              /\ IF entry = "run"
                 THEN /\ result' # <<>>
                      /\ result'[1].raised = "FileNotFoundError"
                 ELSE /\ result' = <<Returned(1)>>
                      /\ printed'[Len(printed')].stream = "stderr"]_allvars
    /\ [][(entry = "" /\ entry' = "cli" /\ ~script_ok) =>
              /\ spawned' = spawned
              /\ process' = process
              /\ command' = <<>>
              /\ pc' = "done"
              /\ result' = <<Returned(1)>>
              /\ printed' = <<Line("stdout", "Error: Script not found or not executable: ",
                                   "", 0)>>]_allvars
    /\ [][(gtk'.clicks > gtk.clicks /\ ~gtk.process /\ ~script_ok) =>
              /\ spawned' = spawned
              /\ process' = process
              /\ heap' = heap
              /\ Len(gtk'.dialogs) = Len(gtk.dialogs) + 1
              /\ ~gtk'.process
              /\ gtk'.sensitive
              /\ gtk'.finalized = gtk.finalized]_allvars
    /\ []((Blocking /\ pc = "done" /\ spawned = <<>>) => process = NoProcess)

\* run, called directly, has raised FileNotFoundError after the script stopped
\* being executable
C11_Witness ==
    /\ entry = "run"
    /\ pc = "done"
    /\ chmods = 1
    /\ result[1].raised = "FileNotFoundError"
    /\ command = <<>>
    /\ spawned = <<>>

\* C12: a blocking run with a callback reaches its return only after the
\* child has ended and been waited for and both reader threads have ended; at
\* that point, when no reader has failed, the sink has received every line
\* the child wrote to either stream, each exactly once; and no line is ever
\* delivered twice.
C12_ReturnsAfterDrain ==
    /\ (Blocking /\ pc \in {"return", "done"} /\ process.state # "none" /\ process.piped) =>
           /\ process.state = "reaped"
           /\ \A i \in 1..2 : thread[i] \in Ended
           /\ ~ReaderFailed =>
                  \A fd \in Streams : \A k \in 1..wrote[fd] :
                      Deliveries([fd |-> fd, k |-> k]) = 1
    /\ \A j \in 1..Len(sink) : Deliveries(sink[j].line) = 1

\* a run has returned after a child that wrote to both streams
C12_Witness ==
    /\ Completed
    /\ ~ReaderFailed
    /\ wrote["stdout"] >= 1
    /\ wrote["stderr"] >= 1
    /\ Len(sink) = wrote["stdout"] + wrote["stderr"]

\* C13: in every state the lines delivered with the stdout tag are a prefix
\* of the lines the child wrote to stdout, and the lines delivered with the
\* stderr tag are a prefix of the lines it wrote to stderr (so every delivery
\* has the tag of the stream it came from); nothing is required of the order
\* between the two.
C13_PerStreamPrefix ==
    \A i \in 1..2 :
        LET t == Tagged(sink, ThreadArgs[i].is_stderr)
            w == Written(IF ThreadArgs[i].is_stderr THEN "stderr" ELSE "stdout")
        IN  /\ Len(t) <= Len(w)
            /\ t = SubSeq(w, 1, Len(t))

\* the child wrote to stdout first and to stderr second, and the sink got
\* the stderr line first
C13_Witness ==
    /\ Len(sink) = 2
    /\ sink[1].is_stderr
    /\ ~sink[2].is_stderr
    /\ wrote["stdout"] = 1
    /\ process.state = "running"

\* the thread that reads the pipe of stream fd
ThreadOf(fd) == thread[CHOOSE i \in 1..2 : ThreadArgs[i].pipe = fd]

\* the child is blocked in a write to a full pipe
ChildBlocked == process.state = "running" /\ process.pending # "" /\ ~Accepts(process.pending)

\* C14: under fair scheduling of the main thread, the two readers and a child
\* that goes on whenever its write is accepted and then ends, a blocking run
\* whose child has started returns, for every order and number of child
\* writes over pipes of bounded capacity, unless a reader thread ends by an
\* exception; and in no state is the child blocked on a full pipe whose
\* reader thread has ended (the thread is being read by, or about to be
\* started by, the main thread's start loop).
C14_DeadlockFree ==
    /\ (Blocking /\ process.state = "running") ~> (pc = "done" \/ ReaderFailed)
    /\ []((Blocking /\ ChildBlocked /\ ~ReaderFailed) =>
              \/ ThreadOf(process.pending) \in {"reading", "callback"}
              \/ ThreadOf(process.pending) = "unstarted" /\ pc \in {"start_1", "start_2"})

\* the child is blocked writing to a full stderr pipe while the stdout
\* reader waits on an empty stdout pipe
C14_Witness ==
    /\ Blocking
    /\ ChildBlocked
    /\ process.pending = "stderr"
    /\ InPipe("stdout") = 0
    /\ thread = <<"reading", "reading">>

\* C15: under fair scheduling of the main thread and the readers alone (the
\* child may stop at any point and never end), every line the child of a
\* blocking run has written to a pipe is eventually delivered to the sink,
\* unless the reader thread of that pipe ends by an exception.
C15_DeliveredWhileRunning ==
    \A fd \in Streams : \A k \in 1..MaxLines :
        (Blocking /\ process.piped /\ wrote[fd] >= k)
            ~> (Deliveries([fd |-> fd, k |-> k]) = 1 \/ ThreadOf(fd) = "failed")

\* every line written so far is delivered and the child is still running
C15_Witness ==
    /\ Blocking
    /\ process.state = "running"
    /\ wrote["stdout"] + wrote["stderr"] = MaxLines
    /\ Len(sink) = MaxLines

\* the window's last finalisation
LastFinalized == gtk.finalized[Len(gtk.finalized)]

\* the step is the completion callback of the window
FinishedStep == gtk.process /\ ~gtk'.process

\* the output view shows a communication error
CommunicationError ==
    \E j \in 1..Len(gtk.output) : gtk.output[j].text = "[GUI Communication Error: ]"

\* C16 as stated: a child that ends with code n makes run return n, with or
\* without a callback, and the CLI print and return n; the window finalises
\* with exit status n, and as successful exactly when n is 0.
C16_Original ==
    /\ [](Completed =>
              /\ result = <<Returned(process.returncode)>>
              /\ entry = "cli" =>
                     printed[Len(printed)] =
                         Line("stdout", "Script exited with code: ", "", process.returncode))
    /\ [][FinishedStep =>
              /\ Len(gtk'.finalized) = Len(gtk.finalized) + 1
              /\ gtk'.finalized[Len(gtk'.finalized)].exit_status = process.returncode]_allvars
    /\ [](\A j \in 1..Len(gtk.finalized) :
              gtk.finalized[j].success <=> gtk.finalized[j].exit_status = 0)

\* C16 amended: as stated for run and the CLI; the window finalises with
\* exit status n, and as successful exactly when n is 0 and
\* communicate_utf8_finish returned the output: when it raised, the run is
\* finalised as failed with exit status n, also for n = 0.
C16_Amended ==
    /\ [](Completed =>
              /\ result = <<Returned(process.returncode)>>
              /\ entry = "cli" =>
                     printed[Len(printed)] =
                         Line("stdout", "Script exited with code: ", "", process.returncode))
    /\ [][FinishedStep =>
              /\ Len(gtk'.finalized) = Len(gtk.finalized) + 1
              /\ gtk'.finalized[Len(gtk'.finalized)].exit_status = process.returncode
              /\ gtk'.finalized[Len(gtk'.finalized)].success
                     <=> (process.returncode = 0 /\ ~CommunicationError')]_allvars

\* the window has finalised as failed a run whose child ended with code 0
C16_Witness ==
    /\ gtk.finalized # <<>>
    /\ LastFinalized = [success |-> FALSE, exit_status |-> 0]
    /\ CommunicationError

\* the CLI has returned the exit code 7 of its child
C16_WitnessCli ==
    /\ Completed
    /\ entry = "cli"
    /\ result = <<Returned(7)>>

\* the results of the blocking requests whose child started and ended
CompletedResults == {Returned(n) : n \in ExitCodes}

\* the window's finalisations of runs whose child started and ended
CompletedFinalisations ==
    {[success |-> b, exit_status |-> n] : b \in BOOLEAN, n \in ExitCodes}

C18_SpawnFailure ==
    /\ [](Blocking => Len(spawned) <= 1)
    /\ [](SpawnFailedBlocking =>
              /\ process = NoProcess
              /\ LastSpawn \in Diagnostics
              /\ entry = "cli" =>
                     /\ result = <<Returned(1)>>
                     /\ printed[Len(printed)] =
                            Line("stderr", "Error running fedorable: ", LastSpawn, 0)
              /\ entry = "run" =>
                     /\ result[1].raised = "OSError"
                     /\ result[1].detail = LastSpawn)
    /\ [][spawned' # spawned =>
              /\ Len(spawned') = Len(spawned) + 1
              /\ Blocking \/ gtk'.clicks = gtk.clicks + 1
              /\ (entry' = "gui" /\ spawned'[Len(spawned')] # "started") =>
                     /\ process' = process
                     /\ ~gtk'.process
                     /\ gtk'.sensitive
                     /\ gtk'.dialogs = Append(gtk.dialogs,
                                              [body |-> "Error Starting Process",
                                               extra |-> spawned'[Len(spawned')]])
                     /\ gtk'.finalized = Append(gtk.finalized,
                                                [success |-> FALSE, exit_status |-> -1])]_allvars

\* the CLI, run without pkexec, has ended after the script stopped being
\* executable between run's check and the spawn
C18_Witness ==
    /\ SpawnFailedBlocking
    /\ entry = "cli"
    /\ ~call.use_pkexec
    /\ chmods = 1
    /\ ~script_ok
    /\ command # <<>>

\* C19 as stated: a failed spawn and a failed stream reader are both
\* reported through the channel a normal end is reported through: a blocking
\* request that ends after either carries the failure in what run raises or
\* returns or in what the CLI prints last; the window's completion callback
\* finalises a communication error as a failed run and clears the process
\* marker.
C19_SameChannel ==
    /\ [](SpawnFailedBlocking =>
              \/ result[1].raised = "OSError"
              \/ printed[Len(printed)].stream = "stderr")
    /\ []((Completed /\ ReaderFailed) =>
              \/ result[1].raised # ""
              \/ result[1] # Returned(process.returncode)
              \/ entry = "cli" /\ printed[Len(printed)].stream = "stderr")
    /\ [][(FinishedStep /\ CommunicationError') =>
              /\ ~gtk'.finalized[Len(gtk'.finalized)].success
              /\ gtk'.sensitive]_allvars

\* a thread of the run, or its child, can take a step
CanStep ==
    ENABLED (\/ MainThread
             \/ \E i \in 1..2 : Reader(i)
             \/ \E fd \in Streams : ChildWrite(fd)
             \/ ChildUnblock
             \/ \E n \in ExitCodes : ChildExit(n))

\* C20 as stated: a blocking run one of whose reader threads has ended by an
\* exception does not hang (until it has returned, one of its threads or its
\* child can take a step) and, under fair scheduling, it returns.
C20_ReturnsDespiteFailure ==
    /\ []((Blocking /\ ReaderFailed /\ pc # "done") => CanStep)
    /\ (Blocking /\ ReaderFailed) ~> pc = "done"

-----------------------------------------------------------------------------
(* The window's runs *)

\* the step is a call of on_run_clicked
ClickStep == gtk'.clicks = gtk.clicks + 1

\* the step spawns a child
SpawnStep == Len(spawned') = Len(spawned) + 1 /\ spawned'[Len(spawned')] = "started"

\* a child exists whose end has not been handled
ActiveChild == process.state \in {"running", "exited"}

\* some checkbox or switch of the window differs from the instance's state
WidgetsDiffer ==
    /\ window # <<>>
    /\ LET self == cores[window[1].fedorable]
           w == window[1].task_checkboxes \o window[1].option_switches
           d == self.tasks \o self.options
       IN  \E i \in 1..Len(w) : w[i].active # heap[d[i].ref].enabled

\* C21: in the window a run request made while the process marker is set
\* spawns nothing, leaves the instance's enabled states, the command and the
\* output view as they are and sets the status to "Maintenance is already
\* running."; a child is spawned only when no child exists whose end has not
\* been handled; and while such a child exists the marker is set.
C21_AtMostOneChild ==
    /\ [][(ClickStep /\ gtk.process) =>
              /\ UNCHANGED <<spawned, process, wrote, got, heap, cores, command>>
              /\ gtk' = [gtk EXCEPT !.clicks = @ + 1,
                                    !.status = Status("Maintenance is already running.", 0)]
         ]_allvars
    /\ [][SpawnStep => (~gtk.process /\ ~ActiveChild)]_allvars
    /\ [](ActiveChild => gtk.process)

\* a run request has been rejected while the child was running and the
\* widgets differed from the instance
C21_Witness ==
    /\ gtk.status = Status("Maintenance is already running.", 0)
    /\ gtk.clicks = 2
    /\ process.state = "running"
    /\ Len(spawned) = 1
    /\ WidgetsDiffer

\* every spawn attempt of the window has been finalised
RunEnded == entry = "gui" /\ spawned # <<>> /\ Len(gtk.finalized) = Len(spawned)

\* C22: whenever every run of the window has ended (a child's exit with any
\* code, a failed spawn, communicate_utf8_async raising after the spawn, an
\* error in the completion callback) the controls are enabled and the
\* process marker is clear; a run request made then, with the script
\* executable, makes a spawn attempt; and every run that is in progress
\* ends.
C22_Rerunnable ==
    /\ [](RunEnded => (gtk.sensitive /\ ~gtk.process))
    /\ [][(RunEnded /\ ClickStep /\ script_ok) => Len(spawned') = Len(spawned) + 1]_allvars
    /\ (entry = "gui" /\ ~gtk.sensitive) ~> RunEnded

-----------------------------------------------------------------------------
(* The states of an invocation *)

\* the state of the blocking invocation, the terminal states by what the
\* caller is told: run returns an int or raises; the CLI prints the exit
\* code or an error (cli.main returning on its own check has invoked nothing)
RunnerState ==
    IF pc = "idle" THEN "Idle"
    ELSE IF pc \in {"run", "Popen", "call"} THEN "Launching"
    ELSE IF pc # "done" THEN "Running"
    ELSE IF entry = "run"
    THEN (IF result[1].raised = "" THEN "Completed" ELSE "LaunchFailed")
    ELSE IF printed[Len(printed)].text = "Script exited with code: " THEN "Completed"
    ELSE IF printed[Len(printed)].text = "Error running fedorable: " THEN "LaunchFailed"
    ELSE "Idle"

\* the moves of `Idle -> Launching -> Running -> {Completed | LaunchFailed}`:
\* a launch fails before anything runs
Moves ==
    {<<"Idle", "Launching">>, <<"Launching", "Running">>, <<"Running", "Completed">>,
     <<"Launching", "LaunchFailed">>}

\* the step finalises a run of the window
FinalizeStep == Len(gtk'.finalized) > Len(gtk.finalized)

\* C23, the blocking runner: an invocation changes its state only along
\* Idle, Launching, Running, then Completed, or Launching then LaunchFailed;
\* Completed comes with the exit code of a child that has ended, LaunchFailed
\* with no child started; a terminal state and its result stay.
C23_Blocking ==
    /\ [][RunnerState' # RunnerState => <<RunnerState, RunnerState'>> \in Moves]_allvars
    /\ []((Blocking /\ RunnerState = "Completed") =>
              /\ LastSpawn = "started"
              /\ process.state = "reaped"
              /\ result = <<Returned(process.returncode)>>)
    /\ []((Blocking /\ RunnerState = "LaunchFailed") =>
              /\ process = NoProcess
              /\ \A j \in 1..Len(spawned) : spawned[j] # "started")
    /\ [][pc = "done" => (pc' = "done" /\ result' = result /\ printed' = printed)]_allvars

\* C23, the window: a run starts from the idle window and runs from the
\* spawn on; it is finalised once, either from running with the exit code of
\* its child, which has ended, or as a launch failure (exit status -1 after
\* "Error Starting Process") in the click itself with no child started; a
\* finalisation stays as it is.
C23_Window ==
    /\ [][(~gtk.communicating /\ gtk'.communicating) =>
              (ClickStep /\ ~gtk.process /\ SpawnStep)]_allvars
    /\ [][FinalizeStep =>
              /\ Len(gtk'.finalized) = Len(gtk.finalized) + 1
              /\ IF gtk'.finalized[Len(gtk'.finalized)].exit_status = -1
                 THEN ClickStep /\ ~SpawnStep /\ ~ActiveChild'
                 ELSE /\ gtk.communicating /\ ~gtk'.communicating
                      /\ process'.state = "reaped"
                      /\ gtk'.finalized[Len(gtk'.finalized)].exit_status
                             = process.returncode]_allvars
    /\ [][\A j \in 1..Len(gtk.finalized) : gtk'.finalized[j] = gtk.finalized[j]]_allvars

\* C23: every invocation of the runner, blocking or from the window, moves
\* through Idle, Launching, Running in that order and ends in exactly one
\* terminal state (Completed only from Running with the exit code known,
\* LaunchFailed only with no child started), which is never left.
C23_StateMachine ==
    /\ C23_Blocking
    /\ C23_Window
    /\ (Blocking /\ RunnerState # "Idle") ~> pc = "done"
    /\ gtk.communicating ~> ~gtk.communicating

-----------------------------------------------------------------------------
(* The window's output view *)

\* how many lines of stream fd the output view shows
Shown(fd) ==
    LET S == {j \in 1..Len(gtk.output) : gtk.output[j].tag = fd /\ gtk.output[j].lines > 0}
    IN  IF S = {} THEN 0 ELSE gtk.output[CHOOSE j \in S : TRUE].lines

\* C24: in the window's run, output the child has written and the view
\* does not show yet never waits for the child's exit (Gio's main loop can
\* take a step that does not need it) and reaches the view also when the
\* child never ends; and when the run is finalised the view shows every line
\* the child has written.
C24_PerChunk ==
    /\ []((gtk.communicating /\ \E fd \in Streams : Shown(fd) < wrote[fd]) =>
              ENABLED GioLoop)
    /\ \A fd \in Streams : \A k \in 1..MaxLines :
           (gtk.communicating /\ wrote[fd] >= k) ~> (Shown(fd) >= k)
    /\ [][(FinalizeStep /\ gtk.communicating) =>
              \A fd \in Streams : Shown(fd)' = wrote[fd]]_allvars

-----------------------------------------------------------------------------
(* Flags *)

\* the flag FedorableTask / FedorableOption derive from a name
DerivedTaskFlag(name) == <<"-", "-", "no", "-">> \o Replace(name, "_", "-")
DerivedOptionFlag(name) == <<"-", "-">> \o Replace(name, "_", "-")

-----------------------------------------------------------------------------
(* The hand-off to the sink *)

\* thread i is in callback(line, is_stderr): _read_output has the line and
\* the call has not returned
InCallback(i) == thread[i] = "callback"

\* C26: in no state of a blocking run are the stdout reader and the stderr
\* reader both in the sink callback.
C26_Synchronized == ~(InCallback(1) /\ InCallback(2))

-----------------------------------------------------------------------------
(* build_command and its caller; the CLI's configuration step *)

\* C27: a build_command call leaves the registries and every instance as
\* they are (script_path, keys, enabled states, flags); a caller's append to
\* a list it was returned leaves them as they are too; and a call made
\* after the caller has appended to the list of the same call before
\* returns the sequence of the instance's state, without the caller's
\* token, equal to what the call before returned.
C27_FreshList ==
    /\ [][last'.op \in {"build_command", "list.append"} =>
              UNCHANGED <<heap, cores, TASKS, OPTIONS>>]_vars
    /\ [][(last'.op = "build_command" /\ last'.modified) =>
              /\ command' = (IF last'.use_pkexec THEN <<PKEXEC>> ELSE <<>>)
                                \o <<cores[last'.core].script_path>>
                                \o DisabledTaskFlags(cores[last'.core], Len(TASKS))
                                \o EnabledOptionFlags(cores[last'.core], Len(OPTIONS))
              /\ Count(command', CALLER_TOKEN) = 0
              /\ command' = hist[last'.core].built[last'.use_pkexec][1]]_vars

\* build_command called again after the caller appended to the list the
\* same call returned before, on an instance with flags to emit
C27_Witness ==
    /\ last.op = "build_command"
    /\ last.modified
    /\ last.again
    /\ NumDisabled(1) >= 1
    /\ NumEnabledOptions(1) >= 1
    /\ Len(command) >= 4

\* C28: after setup_fedorable_core every task is enabled as its explicit
\* argument says when one was given, else enabled when --all was given,
\* else disabled when --none was given, else as in the registry; every
\* option is enabled when its argument was given, else as in the registry.
C28_Precedence ==
    last.op = "setup_fedorable_core" =>
        /\ \A i \in 1..Len(TASKS) :
               TaskOf(cores[1], i).enabled =
                   IF TaskArg(last.args, TASKS[i].key) # "None"
                   THEN TaskArg(last.args, TASKS[i].key) = "store_true"
                   ELSE IF last.args.all THEN TRUE
                   ELSE IF last.args.none THEN FALSE
                   ELSE heap[TASKS[i].ref].enabled
        /\ \A i \in 1..Len(OPTIONS) :
               OptionOf(cores[1], i).enabled =
                   (OptionArg(last.args, OPTIONS[i].key) \/ heap[OPTIONS[i].ref].enabled)

\* --all and --none given together with --no-update and --trim: update is
\* off by its argument, every other task on by --all
C28_Witness ==
    /\ last.op = "setup_fedorable_core"
    /\ last.args.all /\ last.args.none
    /\ last.args.tasks[<<"update">>] = "store_false"
    /\ last.args.tasks[<<"trim">>] = "store_true"
    /\ NumDisabled(1) = 1
    /\ ~TaskOf(cores[1], 1).enabled

-----------------------------------------------------------------------------
(* The legacy task window *)

\* run_tasks has been called and has ended, by returning or by an exception
RunTasksEnded == legacy.exists /\ legacy.total_tasks > 0 /\ ~legacy.in_run_tasks

\* C29: whenever run_tasks has ended, also by an exception of a task method,
\* the run button is sensitive and the stack shows 'tasks'.
C29_ButtonReenabled ==
    RunTasksEnded => (legacy.run_button /\ legacy.visible_child = "tasks")

=============================================================================
